---------------------------- MODULE Spec2Model ----------------------------
(***************************************************************************)
(* A model of the Indian Kanoon judgment scraper (scraper.py) and of the   *)
(* document downloader (download.py): the checkpoint stores, the traversal *)
(* of one court year by year and month by month, the batch sink, and the   *)
(* bounded page-opening handshake of the downloader.                       *)
(***************************************************************************)
EXTENDS Integers, Sequences, FiniteSets, TLC

(***************************************************************************)
(* Bounds of the model.                                                    *)
(***************************************************************************)
NumYears == 2
MaxMonthLinks == 2
MaxPages == 2
MaxRuns == 2
MaxFaults == 1

\* Python's None: as a month name, and as a year.
None == "None"
NoYear == 0

(***************************************************************************)
(* Configuration: scraper.py __init__.                                     *)
(***************************************************************************)
start_year == 2020
end_year == start_year + NumYears - 1
Years == start_year .. end_year

month_names ==
  << "January", "February", "March", "April", "May", "June", "July",
     "August", "September", "October", "November", "December" >>

MonthNameSet == { month_names[i] : i \in 1 .. Len(month_names) }

\* Python's list.index: the 0-based position of a month name.
MonthIndex(name) == (CHOOSE i \in 1 .. Len(month_names) : month_names[i] = name) - 1

BatchThreshold == 100

\* The partitions (rows of court_links.csv).
Courts == { "A", "B" }

\* A slip: every court writes to the first court's file.
csv_file_shared(court_name) == << "A", "csv" >>

\* csv_file = f"{court_name}.csv"
csv_file(court_name) == << court_name, "csv" >>

CsvFiles == { csv_file(c) : c \in Courts }

(***************************************************************************)
(* The web site, as the scraper sees it.  A year page is a list of anchor  *)
(* texts; a month is a chain of pages, each holding a number of document   *)
(* links and, but for the last, a "next" link.                             *)
(***************************************************************************)
SiteMonths == { "January", "December" }

RECURSIVE SeqsUpTo(_, _)
SeqsUpTo(S, n) ==
  IF n = 0 THEN { << >> }
  ELSE LET shorter == SeqsUpTo(S, n - 1)
       IN  shorter \cup { Append(s, x) : s \in shorter, x \in S }

MonthLists == SeqsUpTo(SiteMonths, MaxMonthLinks)

PageSizes == { 0, 60, 100 }

DocChains == SeqsUpTo(PageSizes, MaxPages) \ { << >> }

\* The anchors of a year page: the navigation link, then the month links.
YearPageAnchors(s, y) == << "Search" >> \o s.yearPage[y]

Reverse(s) == [ i \in 1 .. Len(s) |-> s[Len(s) + 1 - i] ]

\* A slip: the month links are collected last-first.
get_month_links_reversed(anchors) ==
  Reverse(SelectSeq(anchors, LAMBDA t : t \in MonthNameSet))

\* get_month_links: the anchors whose text is one of month_names, in page order.
get_month_links(anchors) == SelectSeq(anchors, LAMBDA t : t \in MonthNameSet)

(***************************************************************************)
(* A checkpoint file is absent, holds zero bytes (a write was cut after    *)
(* the truncation), holds text json.load rejects (a write was cut part     *)
(* way), or holds the JSON object the program dumped.                      *)
(***************************************************************************)
EmptyMap == [ k \in {} |-> None ]

Put(m, k, v) == [ x \in (DOMAIN m) \cup { k } |-> IF x = k THEN v ELSE m[x] ]

NewRecord == [ last_year |-> NoYear, last_month |-> None, is_done |-> FALSE ]

AbsentFile == [ kind |-> "absent", data |-> EmptyMap ]

\* json.dump of a dict, then the file's content.
json_dump(d) == [ kind |-> "object", data |-> d ]

\* json.load: the dict of a well-formed file; JSONDecodeError otherwise.
json_load(file) ==
  IF file.kind = "object"
  THEN [ raised |-> FALSE, value |-> file.data ]
  ELSE [ raised |-> TRUE, value |-> EmptyMap ]

\* A slip: no except clause around json.load.
load_checkpoint_no_except(file) ==
  IF file.kind \in { "absent", "empty" }
  THEN [ raised |-> FALSE, value |-> EmptyMap ]
  ELSE json_load(file)

\* load_checkpoint: {} for a missing or zero-byte file and for a file
\* json.load rejects; else what json.load returns.
load_checkpoint(file) ==
  IF file.kind \in { "absent", "empty" }
  THEN [ raised |-> FALSE, value |-> EmptyMap ]
  ELSE IF json_load(file).raised
       THEN [ raised |-> FALSE, value |-> EmptyMap ]
       ELSE json_load(file)

\* save_checkpoint: a full rewrite of the file with the given dict.
save_checkpoint(d) == json_dump(d)

(***************************************************************************)
(* bypass_cloudflare: returns on the fast path (the URL is on the target   *)
(* domain within 10 polls) or when the logo shows after the challenge;     *)
(* raises when waiting for the logo times out.                             *)
(***************************************************************************)
GateBehaviours == { "fast", "verified", "blocked" }

bypass_cloudflare(g) == IF g = "blocked" THEN "raise" ELSE "return"

(***************************************************************************)
(* save_links_batch: nothing for an empty batch; else append the rows,     *)
(* writing the header only when the file does not exist yet.               *)
(***************************************************************************)
NoCsv == [ exists |-> FALSE, headers |-> 0, rows |-> << >> ]

save_links_batch(links, f) ==
  IF links = << >> THEN f
  ELSE [ exists |-> TRUE,
         headers |-> f.headers + (IF f.exists THEN 0 ELSE 1),
         rows |-> f.rows \o links ]

RECURSIVE Count(_)
\* Number of records in a sequence of page blocks.
Count(blocks) == IF blocks = << >> THEN 0 ELSE Head(blocks).n + Count(Tail(blocks))

\* Python's s[k:].
SliceFrom(s, k) == SubSeq(s, k + 1, Len(s))

VARIABLES
  site,             \* the web site: year pages and the pagination chain
  active,           \* the courts submitted to the pool
  checkpoint_file,  \* scraping_checkpoint.json
  csv,              \* the output files, by name
  pc,               \* where each scrape_court worker is
  checkpoint_data,  \* each worker's dict, as loaded and then updated
  last_year,        \* scrape_court's local last_year
  last_month,       \* scrape_court's local last_month
  year,             \* the year of scrape_court's outer loop
  todo,             \* the month links still to process in this year
  page,             \* the page of the month being processed (1-based)
  month_links,      \* process_month_page's batch of records not yet written
  err,              \* what raised the exception scrape_court caught, if any
  appended,         \* the records appended to a batch, but for those that
                    \* were still in memory when the process was killed
  nwrites,          \* month checkpoints written by the worker in this run
  runs,             \* process restarts so far
  faults            \* injected exceptions so far

scrVars ==
  << site, active, checkpoint_file, csv, pc, checkpoint_data, last_year,
     last_month, year, todo, page, month_links, err, appended, nwrites, runs,
     faults >>

(***************************************************************************)
(* download.py                                                             *)
(***************************************************************************)
MaxRows == 2
MaxRetriesBound == 4
PollLimit == 10

\* CSV_FILES
DlCsvs == { "X", "Y" }

VARIABLES
  dl_file,     \* scraping_checkpoint_download.json
  dl_present,  \* whether each CSV file exists
  dl_total,    \* total_rows of each CSV
  dl_pc,       \* where each process_csv worker is
  dl_row,      \* row_idx
  dl_start_idx,\* start_idx, as read from the checkpoint by this run
  dl_started,  \* the << run, row >> pairs of the loop passes begun so far
  dl_outcome,  \* how the try block of the current row ended ("none": not yet)
  html,        \* the rows whose HTML file has been written
  dl_runs      \* process restarts so far

dlVars ==
  << dl_file, dl_present, dl_total, dl_pc, dl_row, dl_start_idx, dl_started,
     dl_outcome, html, dl_runs >>

VARIABLES
  hs_max,      \* open_kanoon_page's max_retries
  hs_pc,       \* "attempt": at the head of the for loop; "poll"; "done"
  hs_attempt,  \* the loop variable attempt
  hs_polls,    \* passes of the polling loop made in this attempt
  hs_loads,    \* calls of uc_open_with_reconnect so far
  hs_missed,   \* attempts that ended without the marker
  hs_result    \* "none", "True" or "False"

hsVars ==
  << hs_max, hs_pc, hs_attempt, hs_polls, hs_loads, hs_missed, hs_result >>

VARIABLES
  ld_result,   \* what a call of load_checkpoint gave
  gv_result    \* what a call of get_checkpoint_value gave

ldVars == << ld_result, gv_result >>

VARIABLES
  seed,         \* the rows of court_links.csv, in file order
  max_workers,  \* the size of the pool
  sa_pc,        \* where scrape_all is
  courts_df,    \* the tagged rows, after sort_values
  futures,      \* the rows submitted so far, in submission order
  fstate,       \* the state of each court's future ("none": not submitted)
  collected,    \* the futures whose result scrape_all has taken
  sa_i,         \* the position of the loop "for f in futures: f.cancel()"
  sigint        \* whether KeyboardInterrupt has been raised in the main thread

schVars ==
  << seed, max_workers, sa_pc, courts_df, futures, fstate, collected, sa_i,
     sigint >>

VARIABLES
  dm_pc,        \* where main of download.py is
  dm_next,      \* how many of CSV_FILES main has submitted
  dm_collected  \* the futures whose result main has taken

dmVars == << dm_pc, dm_next, dm_collected >>

VARIABLES
  lk_prog,          \* which program's threads run: "scraper" or "download"
  checkpoint_lock,  \* the thread that holds the checkpoint lock, if any
  lk_pc,            \* where each thread is
  lk_seen,          \* the state of the file each thread last read
  lk_calls          \* the checkpoint calls each thread has made

lkVars == << lk_prog, checkpoint_lock, lk_pc, lk_seen, lk_calls >>

VARIABLES
  ts_pc,     \* where test_2020.py is
  ts_idx,    \* how many rows of the seed list Scraper2020.scrape_all has passed
  ts_calls,  \* the calls of the year-processing operation made so far
  ts_links   \* whether all_judgment_links.csv exists

tsVars == << ts_pc, ts_idx, ts_calls, ts_links >>

VARIABLES
  recorded,  \* the << court, year, month, run >> of every month checkpoint
             \* written so far: run is the number of the run that wrote it
  passed,    \* the courts whose loop over the years has run to its end
  lk_wrote   \* download mode: the value update_checkpoint_value last wrote
             \* for each CSV; before its first write, the file's first entry

ghVars == << recorded, passed, lk_wrote >>

\* Largest page number of a month's listing.
MaxPageId == 2

\* Most anchors with the text "next" on one page.
MaxNextAnchors == 2

\* Page loads of one call followed by the model.
MaxLoads == MaxPageId + 1

VARIABLES
  pm_site,    \* for each page of a month, the hrefs of its anchors whose text
              \* is "next", in document order
  pm_pc,      \* where process_month_page is
  pm_url,     \* current_url
  pm_loaded,  \* the pages handed to sb.get so far, in order
  pm_raised   \* whether the except clause of line 174 has run

pmVars == << pm_site, pm_pc, pm_url, pm_loaded, pm_raised >>

vars ==
  << scrVars, dlVars, hsVars, ldVars, schVars, dmVars, lkVars, tsVars, ghVars,
     pmVars >>

PageIds == 1 .. MaxPageId

\* An anchor without an href, and current_url = None.
NoHref == 0

\* process_month_page is not running.
IdlePm ==
  /\ pm_site = [ p \in PageIds |-> << >> ]
  /\ pm_pc = "off"
  /\ pm_url = NoHref
  /\ pm_loaded = << >>
  /\ pm_raised = FALSE

\* No month checkpoint has been written.
\* test_2020.py is not running.
IdleTs ==
  /\ ts_pc = "off"
  /\ ts_idx = 0
  /\ ts_calls = << >>
  /\ ts_links = FALSE

Threads == Courts \cup DlCsvs

NoThread == "NoThread"

NoRead == [ kind |-> "none", data |-> EmptyMap ]

OutsideCalls == [ op |-> "none", stage |-> "net" ]

\* No thread is in a checkpoint call.
IdleLk ==
  /\ lk_prog = "none"
  /\ checkpoint_lock = NoThread
  /\ lk_pc = [ t \in Threads |-> OutsideCalls ]
  /\ lk_seen = [ t \in Threads |-> NoRead ]
  /\ lk_calls = [ t \in Threads |-> 0 ]

\* The file has no entry for the CSV (line 83 adds one).
NoEntry == 0 - 1

\* No month checkpoint has been written, no court has been walked to its end,
\* no cursor has been written.
IdleGh ==
  /\ recorded = {}
  /\ passed = {}
  /\ lk_wrote = [ t \in Threads |-> NoEntry ]

\* main of download.py is not running.
IdleDm ==
  /\ dm_pc = "off"
  /\ dm_next = 0
  /\ dm_collected = {}

\* scrape_all is not running.
IdleSch ==
  /\ seed = << >>
  /\ max_workers = 0
  /\ sa_pc = "off"
  /\ courts_df = << >>
  /\ futures = << >>
  /\ fstate = [ c \in Courts |-> "none" ]
  /\ collected = {}
  /\ sa_i = 0
  /\ sigint = FALSE

NoResult == [ called |-> FALSE, raised |-> FALSE ]

\* The parts of the state a specification does not use.
IdleDl ==
  /\ dl_file = AbsentFile
  /\ dl_present = [ f \in DlCsvs |-> FALSE ]
  /\ dl_total = [ f \in DlCsvs |-> 0 ]
  /\ dl_pc = [ f \in DlCsvs |-> "unsubmitted" ]
  /\ dl_row = [ f \in DlCsvs |-> 0 ]
  /\ dl_start_idx = [ f \in DlCsvs |-> 0 ]
  /\ dl_started = [ f \in DlCsvs |-> {} ]
  /\ dl_outcome = [ f \in DlCsvs |-> "none" ]
  /\ html = {}
  /\ dl_runs = 0

IdleHs ==
  /\ hs_max = 0
  /\ hs_pc = "done"
  /\ hs_attempt = 1
  /\ hs_polls = 0
  /\ hs_loads = 0
  /\ hs_missed = 0
  /\ hs_result = "none"

IdleLd ==
  /\ ld_result = NoResult
  /\ gv_result = NoResult

Sites ==
  [ yearPage : [ Years -> MonthLists ], chain : DocChains ]

InitWorkers ==
  /\ pc = [ c \in Courts |-> "idle" ]
  /\ checkpoint_data = [ c \in Courts |-> EmptyMap ]
  /\ last_year = [ c \in Courts |-> NoYear ]
  /\ last_month = [ c \in Courts |-> None ]
  /\ year = [ c \in Courts |-> start_year ]
  /\ todo = [ c \in Courts |-> << >> ]
  /\ page = [ c \in Courts |-> 0 ]
  /\ month_links = [ c \in Courts |-> << >> ]
  /\ err = [ c \in Courts |-> "none" ]
  /\ nwrites = [ c \in Courts |-> 0 ]

Init ==
  /\ site \in Sites
  /\ active = { "A" }
  /\ checkpoint_file = AbsentFile
  /\ csv = [ f \in CsvFiles |-> NoCsv ]
  /\ InitWorkers
  /\ appended = [ c \in Courts |-> << >> ]
  /\ runs = 0
  /\ faults = 0
  /\ IdleDl /\ IdleHs /\ IdleLd /\ IdleSch /\ IdleDm /\ IdleLk /\ IdleTs /\ IdleGh /\ IdlePm

\* A slip: the done flag is not looked at.
AlreadyDone_ignored(court_checkpoint) == FALSE

\* Line 202: court_checkpoint.get("is_done", False)
AlreadyDone(court_checkpoint) == court_checkpoint.is_done

(***************************************************************************)
(* scrape_court, lines 188-207: load the checkpoint, add this court's      *)
(* record if missing, return at once when it is marked done.               *)
(***************************************************************************)
Start(c) ==
  /\ c \in active
  /\ pc[c] = "idle"
  /\ LET r == load_checkpoint(checkpoint_file)
         d == IF c \in DOMAIN r.value THEN r.value ELSE Put(r.value, c, NewRecord)
     IN  IF r.raised
         THEN \* outside the try of line 209: the exception leaves scrape_court
              /\ pc' = [ pc EXCEPT ![c] = "raised" ]
              /\ UNCHANGED << checkpoint_data, last_year, last_month, year >>
         ELSE /\ checkpoint_data' = [ checkpoint_data EXCEPT ![c] = d ]
              /\ IF AlreadyDone(d[c])
                 THEN /\ pc' = [ pc EXCEPT ![c] = "returned" ]
                      /\ UNCHANGED << last_year, last_month, year >>
                 ELSE /\ pc' = [ pc EXCEPT ![c] = "year" ]
                      /\ last_year' = [ last_year EXCEPT ![c] = d[c].last_year ]
                      /\ last_month' = [ last_month EXCEPT ![c] = d[c].last_month ]
                      /\ year' = [ year EXCEPT ![c] = start_year ]
  /\ UNCHANGED << site, active, checkpoint_file, csv, todo, page, month_links,
                  err, appended, nwrites, runs, faults >>
  /\ UNCHANGED << dlVars, hsVars, ldVars, schVars, dmVars, lkVars, tsVars, ghVars, pmVars >>

\* Lines 226-236: the month links of a year page that scrape_court will process.
\* "skip" stands for the "continue" of line 233.
MonthsToProcess(links, y, ly, lm) ==
  IF ly = y /\ lm \in MonthNameSet
  THEN IF MonthIndex(lm) + 1 > 11
       THEN << >>
       ELSE SliceFrom(links, MonthIndex(lm) + 1)
  ELSE SliceFrom(links, 0)

(***************************************************************************)
(* One iteration of the loop over the years, lines 211-236, up to the      *)
(* first call of process_month_page.                                       *)
(***************************************************************************)
YearStep(c) ==
  /\ pc[c] = "year"
  /\ year[c] <= end_year
  /\ IF last_year[c] # NoYear /\ year[c] < last_year[c]
     THEN /\ year' = [ year EXCEPT ![c] = @ + 1 ]
          /\ UNCHANGED << pc, todo, page, month_links, err, faults >>
     ELSE \E g \in GateBehaviours :
            IF bypass_cloudflare(g) = "raise"
            THEN \* caught at line 250: the worker logs and returns
                 /\ faults < MaxFaults
                 /\ faults' = faults + 1
                 /\ pc' = [ pc EXCEPT ![c] = "error" ]
                 /\ err' = [ err EXCEPT ![c] = "gate" ]
                 /\ UNCHANGED << year, todo, page, month_links >>
            ELSE LET links == get_month_links(YearPageAnchors(site, year[c]))
                     rest == MonthsToProcess(links, year[c], last_year[c], last_month[c])
                 IN  /\ UNCHANGED << faults, err >>
                     /\ IF rest = << >>
                        THEN /\ year' = [ year EXCEPT ![c] = @ + 1 ]
                             /\ UNCHANGED << pc, todo, page, month_links >>
                        ELSE /\ todo' = [ todo EXCEPT ![c] = rest ]
                             /\ page' = [ page EXCEPT ![c] = 1 ]
                             /\ month_links' = [ month_links EXCEPT ![c] = << >> ]
                             /\ pc' = [ pc EXCEPT ![c] = "page" ]
                             /\ UNCHANGED year
  /\ UNCHANGED << site, active, checkpoint_file, csv, checkpoint_data, last_year,
                  last_month, appended, nwrites, runs >>
  /\ UNCHANGED << dlVars, hsVars, ldVars, schVars, dmVars, lkVars, tsVars, ghVars, pmVars >>

\* A slip: the batch is not cleared after the threshold flush.
PageLoop_keeps_batch(batch, f, block, hasNext, out) ==
  IF out = "raise_get"
  THEN [ batch |-> << >>, file |-> save_links_batch(batch, f), more |-> FALSE,
         added |-> << >> ]
  ELSE LET links_this_page == IF block.n > 0 THEN << block >> ELSE << >>
           b1 == batch \o links_this_page
           full == block.n > 0 /\ Count(b1) >= BatchThreshold
           f1 == IF full THEN save_links_batch(b1, f) ELSE f
       IN  IF out = "ok" /\ hasNext
           THEN [ batch |-> b1, file |-> f1, more |-> TRUE,
                  added |-> links_this_page ]
           ELSE [ batch |-> << >>, file |-> save_links_batch(b1, f1),
                  more |-> FALSE, added |-> links_this_page ]

\* A slip: the except clause stops the loop without writing the batch.
PageLoop_drops_on_error(batch, f, block, hasNext, out) ==
  IF out = "raise_get"
  THEN [ batch |-> << >>, file |-> f, more |-> FALSE, added |-> << >> ]
  ELSE LET links_this_page == IF block.n > 0 THEN << block >> ELSE << >>
           b1 == batch \o links_this_page
           full == block.n > 0 /\ Count(b1) >= BatchThreshold
           f1 == IF full THEN save_links_batch(b1, f) ELSE f
           b2 == IF full THEN << >> ELSE b1
       IN  IF out = "ok" /\ hasNext
           THEN [ batch |-> b2, file |-> f1, more |-> TRUE,
                  added |-> links_this_page ]
           ELSE [ batch |-> << >>,
                  file |-> IF out = "ok" THEN save_links_batch(b2, f1) ELSE f1,
                  more |-> FALSE, added |-> links_this_page ]

(***************************************************************************)
(* process_month_page, one pass of its while loop (lines 125-180) on a     *)
(* page with n document links.  out: "ok", "raise_get" (sb.get or the      *)
(* link collection raises) or "raise_next" (the search for the next link   *)
(* raises).  Gives the batch, the file and whether the loop goes on.       *)
(***************************************************************************)
PageLoop(batch, f, block, hasNext, out) ==
  IF out = "raise_get"
  THEN [ batch |-> << >>, file |-> save_links_batch(batch, f), more |-> FALSE,
         added |-> << >> ]
  ELSE LET links_this_page == IF block.n > 0 THEN << block >> ELSE << >>
           b1 == batch \o links_this_page
           full == block.n > 0 /\ Count(b1) >= BatchThreshold
           f1 == IF full THEN save_links_batch(b1, f) ELSE f
           b2 == IF full THEN << >> ELSE b1
       IN  IF out = "ok" /\ hasNext
           THEN [ batch |-> b2, file |-> f1, more |-> TRUE,
                  added |-> links_this_page ]
           ELSE [ batch |-> << >>, file |-> save_links_batch(b2, f1),
                  more |-> FALSE, added |-> links_this_page ]

PageOutcomes == { "ok", "raise_get", "raise_next" }

PageStep(c) ==
  /\ pc[c] = "page"
  /\ \E out \in PageOutcomes :
       LET block == [ court |-> c, year |-> year[c], month |-> Head(todo[c]),
                      page |-> page[c], n |-> site.chain[page[c]] ]
           r == PageLoop(month_links[c], csv[csv_file(c)], block,
                         page[c] < Len(site.chain), out)
       IN  /\ IF out = "ok" THEN UNCHANGED faults
              ELSE faults < MaxFaults /\ faults' = faults + 1
           /\ month_links' = [ month_links EXCEPT ![c] = r.batch ]
           /\ csv' = [ csv EXCEPT ![csv_file(c)] = r.file ]
           /\ appended' = [ appended EXCEPT ![c] = @ \o r.added ]
           /\ IF r.more
              THEN page' = [ page EXCEPT ![c] = @ + 1 ] /\ UNCHANGED pc
              ELSE pc' = [ pc EXCEPT ![c] = "ckpt" ] /\ UNCHANGED page
  /\ UNCHANGED << site, active, checkpoint_file, checkpoint_data, last_year,
                  last_month, year, todo, err, nwrites, runs >>
  /\ UNCHANGED << dlVars, hsVars, ldVars, schVars, dmVars, lkVars, tsVars, ghVars, pmVars >>

\* A slip: the month's save also sets the done flag.
MonthRecord_marks_done(rec, y, m) ==
  [ rec EXCEPT !.last_year = y, !.last_month = m, !.is_done = TRUE ]

\* Lines 239-240: the court's record after a month.
MonthRecord(rec, y, m) == [ rec EXCEPT !.last_year = y, !.last_month = m ]

(***************************************************************************)
(* Lines 238-243: after process_month_page, record the month and save the  *)
(* worker's whole dict; then the next month, or the next year.             *)
(***************************************************************************)
SaveMonth(c) ==
  /\ pc[c] = "ckpt"
  /\ LET m == Head(todo[c])
         d == [ checkpoint_data[c] EXCEPT
                  ![c] = MonthRecord(checkpoint_data[c][c], year[c], m) ]
     IN  /\ checkpoint_data' = [ checkpoint_data EXCEPT ![c] = d ]
         /\ checkpoint_file' = save_checkpoint(d)
         /\ last_year' = [ last_year EXCEPT ![c] = year[c] ]
         /\ last_month' = [ last_month EXCEPT ![c] = m ]
  /\ nwrites' = [ nwrites EXCEPT ![c] = @ + 1 ]
  /\ todo' = [ todo EXCEPT ![c] = Tail(@) ]
  /\ IF Tail(todo[c]) = << >>
     THEN /\ year' = [ year EXCEPT ![c] = @ + 1 ]
          /\ pc' = [ pc EXCEPT ![c] = "year" ]
          /\ UNCHANGED page
     ELSE /\ page' = [ page EXCEPT ![c] = 1 ]
          /\ pc' = [ pc EXCEPT ![c] = "page" ]
          /\ UNCHANGED year
  /\ UNCHANGED << site, active, csv, month_links, err, appended, runs, faults >>
  /\ recorded' = recorded \cup { << c, year[c], Head(todo[c]), runs >> }
  /\ UNCHANGED << passed, lk_wrote >>
  /\ UNCHANGED << dlVars, hsVars, ldVars, schVars, dmVars, lkVars, tsVars, pmVars >>

(***************************************************************************)
(* Lines 245-248: the loop over the years has ended; mark the court done.  *)
(***************************************************************************)
MarkDone(c) ==
  /\ pc[c] = "year"
  /\ year[c] > end_year
  /\ LET d == [ checkpoint_data[c] EXCEPT ![c].is_done = TRUE ]
     IN  /\ checkpoint_data' = [ checkpoint_data EXCEPT ![c] = d ]
         /\ checkpoint_file' = save_checkpoint(d)
  /\ pc' = [ pc EXCEPT ![c] = "returned" ]
  /\ passed' = passed \cup { c }
  /\ UNCHANGED << site, active, csv, last_year, last_month, year, todo, page,
                  month_links, err, appended, nwrites, runs, faults, recorded, lk_wrote >>
  /\ UNCHANGED << dlVars, hsVars, ldVars, schVars, dmVars, lkVars, tsVars, pmVars >>

(***************************************************************************)
(* The process ends (killed at any point, or after its workers returned)   *)
(* and is started again: the files stay, everything in memory is gone.     *)
(***************************************************************************)
Restart ==
  /\ runs < MaxRuns
  /\ \E c \in active : pc[c] # "idle"
  /\ runs' = runs + 1
  /\ appended' = [ c \in Courts |->
                      SubSeq(appended[c], 1, Len(appended[c]) - Len(month_links[c])) ]
  /\ err' = [ c \in Courts |-> "none" ]
  /\ nwrites' = [ c \in Courts |-> 0 ]
  /\ pc' = [ c \in Courts |-> "idle" ]
  /\ checkpoint_data' = [ c \in Courts |-> EmptyMap ]
  /\ last_year' = [ c \in Courts |-> NoYear ]
  /\ last_month' = [ c \in Courts |-> None ]
  /\ year' = [ c \in Courts |-> start_year ]
  /\ todo' = [ c \in Courts |-> << >> ]
  /\ page' = [ c \in Courts |-> 0 ]
  /\ month_links' = [ c \in Courts |-> << >> ]
  /\ UNCHANGED << site, active, checkpoint_file, csv, faults >>
  /\ UNCHANGED << dlVars, hsVars, ldVars, schVars, dmVars, lkVars, tsVars, ghVars, pmVars >>

Next ==
  \/ \E c \in Courts : Start(c)
  \/ \E c \in Courts : YearStep(c)
  \/ \E c \in Courts : PageStep(c)
  \/ \E c \in Courts : SaveMonth(c)
  \/ \E c \in Courts : MarkDone(c)
  \/ Restart

Spec == Init /\ [][Next]_vars

(***************************************************************************)
(* Two courts run concurrently over one small site.                        *)
(***************************************************************************)
ConcSites ==
  { s \in Sites : /\ \A y \in Years : s.yearPage[y] = << "January" >>
                  /\ s.chain = << 60 >> }

InitConc ==
  /\ site \in ConcSites
  /\ active = Courts
  /\ checkpoint_file = AbsentFile
  /\ csv = [ f \in CsvFiles |-> NoCsv ]
  /\ InitWorkers
  /\ appended = [ c \in Courts |-> << >> ]
  /\ runs = 0
  /\ faults = 0
  /\ IdleDl /\ IdleHs /\ IdleLd /\ IdleSch /\ IdleDm /\ IdleLk /\ IdleTs /\ IdleGh /\ IdlePm

SpecConc == InitConc /\ [][Next]_vars

IdleScr ==
  /\ site \in ConcSites
  /\ active = {}
  /\ checkpoint_file = AbsentFile
  /\ csv = [ f \in CsvFiles |-> NoCsv ]
  /\ InitWorkers
  /\ appended = [ c \in Courts |-> << >> ]
  /\ runs = 0
  /\ faults = 0

(***************************************************************************)
(* One run of scrape_court for court A that resumes from the checkpoint an *)
(* earlier run left: the record names a year and a month that year's page  *)
(* lists.  The year pages list distinct months in calendar order, any      *)
(* months of the calendar: not always January first, seldom all twelve.    *)
(***************************************************************************)
ResumeMonths == { "January", "February", "December" }

ResumeSites ==
  { s \in [ yearPage : [ Years -> SeqsUpTo(ResumeMonths, MaxMonthLinks) ],
            chain : { << 60 >> } ] :
      \A y \in Years :
        \A i, j \in 1 .. Len(s.yearPage[y]) :
          i < j => MonthIndex(s.yearPage[y][i]) < MonthIndex(s.yearPage[y][j]) }

InitResume ==
  /\ site \in ResumeSites
  /\ active = { "A" }
  /\ \E y \in Years :
       \E i \in 0 .. Len(site.yearPage[y]) :
         checkpoint_file =
           IF i = 0 THEN AbsentFile
           ELSE json_dump(Put(EmptyMap, "A",
                              [ last_year |-> y, last_month |-> site.yearPage[y][i],
                                is_done |-> FALSE ]))
  /\ csv = [ f \in CsvFiles |-> NoCsv ]
  /\ InitWorkers
  /\ appended = [ c \in Courts |-> << >> ]
  /\ runs = 0
  /\ faults = 0
  /\ IdleDl /\ IdleHs /\ IdleLd /\ IdleSch /\ IdleDm /\ IdleLk /\ IdleTs /\ IdleGh /\ IdlePm

NextResume ==
  \/ \E c \in Courts : Start(c)
  \/ \E c \in Courts : YearStep(c)
  \/ \E c \in Courts : PageStep(c)
  \/ \E c \in Courts : SaveMonth(c)
  \/ \E c \in Courts : MarkDone(c)

SpecResume == InitResume /\ [][NextResume]_vars

(***************************************************************************)
(* process_month_page when the write of save_links_batch raises (line 116: *)
(* the output file cannot be written).  The page has loaded and its links  *)
(* are in the batch; the flush of line 155 or of line 171 raises inside    *)
(* the try, so the except clause of line 174 runs and calls                *)
(* save_links_batch once more (line 179), outside any try: when that call  *)
(* raises too the exception leaves process_month_page and is caught by     *)
(* scrape_court at line 250.                                               *)
(***************************************************************************)
\* Whether this pass of the loop calls save_links_batch with a non-empty batch.
FlushAttempted(batch, block, hasNext) ==
  LET b1 == batch \o (IF block.n > 0 THEN << block >> ELSE << >>)
  IN  \/ block.n > 0 /\ Count(b1) >= BatchThreshold
      \/ ~hasNext /\ b1 # << >>

\* again: whether the call in the except clause raises as well.
FlushFails(batch, f, block, hasNext, again) ==
  LET links_this_page == IF block.n > 0 THEN << block >> ELSE << >>
      b1 == batch \o links_this_page
  IN  IF again
      THEN [ file |-> f, exit |-> "propagate", added |-> links_this_page ]
      ELSE [ file |-> save_links_batch(b1, f), exit |-> "break",
             added |-> links_this_page ]

PageStepFlushFails(c) ==
  /\ pc[c] = "page"
  /\ faults < MaxFaults
  /\ LET block == [ court |-> c, year |-> year[c], month |-> Head(todo[c]),
                    page |-> page[c], n |-> site.chain[page[c]] ]
         hasNext == page[c] < Len(site.chain)
     IN  /\ FlushAttempted(month_links[c], block, hasNext)
         /\ \E again \in BOOLEAN :
              LET r == FlushFails(month_links[c], csv[csv_file(c)], block,
                                  hasNext, again)
              IN  /\ csv' = [ csv EXCEPT ![csv_file(c)] = r.file ]
                  /\ appended' = [ appended EXCEPT ![c] = @ \o r.added ]
                  /\ pc' = [ pc EXCEPT
                               ![c] = IF r.exit = "break" THEN "ckpt" ELSE "error" ]
  /\ faults' = faults + 1
  /\ err' = [ err EXCEPT ![c] = "flush" ]
  /\ month_links' = [ month_links EXCEPT ![c] = << >> ]
  /\ UNCHANGED << site, active, checkpoint_file, checkpoint_data, last_year,
                  last_month, year, todo, page, nwrites, runs >>
  /\ UNCHANGED << dlVars, hsVars, ldVars, schVars, dmVars, lkVars, tsVars, ghVars, pmVars >>

FlushSites ==
  { s \in Sites : \A y \in Years : s.yearPage[y] \in { << "January" >>,
                                                       << "January", "December" >> } }

InitFlush ==
  /\ site \in FlushSites
  /\ active = { "A" }
  /\ checkpoint_file = AbsentFile
  /\ csv = [ f \in CsvFiles |-> NoCsv ]
  /\ InitWorkers
  /\ appended = [ c \in Courts |-> << >> ]
  /\ runs = 0
  /\ faults = 0
  /\ IdleDl /\ IdleHs /\ IdleLd /\ IdleSch /\ IdleDm /\ IdleLk /\ IdleTs /\ IdleGh /\ IdlePm

NextFlush ==
  \/ NextResume
  \/ \E c \in Courts : PageStepFlushFails(c)

SpecFlush == InitFlush /\ [][NextFlush]_vars

(***************************************************************************)
(* process_month_page, lines 119-180, as a walk over the pages of one      *)
(* month: load current_url, take the href of the first anchor whose text   *)
(* is "next", go on while it is truthy; an exception ends the loop.        *)
(***************************************************************************)
\* A slip: the last "next" anchor is taken, not the first.
next_page_last(anchors) ==
  IF anchors = << >> THEN NoHref ELSE anchors[Len(anchors)]

\* Lines 159-163: the href of the first anchor whose text is "next"; None
\* when there is none.
next_page(anchors) ==
  IF anchors = << >> THEN NoHref ELSE Head(anchors)

MonthListings ==
  [ PageIds -> SeqsUpTo(PageIds \cup { NoHref }, MaxNextAnchors) ]

InitPages ==
  /\ pm_site \in MonthListings
  /\ pm_pc = "loop"
  /\ pm_url = 1
  /\ pm_loaded = << >>
  /\ pm_raised = FALSE
  /\ IdleScr /\ IdleDl /\ IdleHs /\ IdleLd /\ IdleSch /\ IdleDm /\ IdleLk /\ IdleTs /\ IdleGh

\* Lines 125-180: one pass of the while loop.
PmPass ==
  /\ pm_pc = "loop"
  /\ pm_url # NoHref
  /\ Len(pm_loaded) < MaxLoads
  /\ pm_loaded' = Append(pm_loaded, pm_url)
  /\ \E raises \in BOOLEAN :
       IF raises
       THEN \* lines 174-180: log, flush, break
            /\ pm_raised' = TRUE
            /\ pm_pc' = "returned"
            /\ UNCHANGED pm_url
       ELSE \* lines 165-172
            /\ pm_url' = next_page(pm_site[pm_url])
            /\ UNCHANGED << pm_pc, pm_raised >>
  /\ UNCHANGED pm_site
  /\ UNCHANGED << scrVars, dlVars, hsVars, ldVars, schVars, dmVars, lkVars, tsVars, ghVars >>

\* Line 125: current_url is None, the while loop ends and the call returns.
PmReturn ==
  /\ pm_pc = "loop"
  /\ pm_url = NoHref
  /\ pm_pc' = "returned"
  /\ UNCHANGED << pm_site, pm_url, pm_loaded, pm_raised >>
  /\ UNCHANGED << scrVars, dlVars, hsVars, ldVars, schVars, dmVars, lkVars, tsVars, ghVars >>

NextPages == PmPass \/ PmReturn

\* The loop runs in one thread, and every statement of its body returns or
\* raises: the call keeps taking steps until it has returned.
SpecPages == InitPages /\ [][NextPages]_vars /\ WF_vars(NextPages)

(***************************************************************************)
(* Two courts run concurrently, the run is stopped and started again, and  *)
(* a worker may meet any of the errors: a Handshake that raises, a page    *)
(* load that raises, a flush that raises.                                  *)
(***************************************************************************)
NextErrors ==
  \/ Next
  \/ \E c \in Courts : PageStepFlushFails(c)

SpecErrors == InitConc /\ [][NextErrors]_vars

(***************************************************************************)
(* scrape_all, lines 253-312: read the seed list, tag each row with the    *)
(* is_done flag of the checkpoint, sort by the flag, submit every row to   *)
(* the pool, collect the results; on KeyboardInterrupt cancel the futures. *)
(***************************************************************************)
SeedLists ==
  { s \in SeqsUpTo(Courts, Cardinality(Courts)) :
      \A i, j \in 1 .. Len(s) : i # j => s[i] # s[j] }

\* Lines 268-272.
is_done_for_row(c_name, checkpoint) ==
  IF c_name \notin DOMAIN checkpoint THEN FALSE ELSE checkpoint[c_name].is_done

\* Line 274: the rows with their is_done column.
Tagged(rows, checkpoint) ==
  [ i \in 1 .. Len(rows) |->
      [ court |-> rows[i], is_done |-> is_done_for_row(rows[i], checkpoint) ] ]

Perms(n) ==
  { p \in [ 1 .. n -> 1 .. n ] : \A i, j \in 1 .. n : i # j => p[i] # p[j] }

\* Line 277: sort_values(by="is_done", ascending=True) with the default
\* kind="quicksort", which pandas documents as not stable: the rows come out
\* with False before True, rows with equal flags in an order the sort picks.
sort_values(df) ==
  { [ i \in 1 .. Len(df) |-> df[q[i]] ] :
      q \in { p \in Perms(Len(df)) :
                \A i, j \in 1 .. Len(df) :
                  i < j => ~(df[p[i]].is_done /\ ~df[p[j]].is_done) } }

\* A slip: no try around f.result().
AfterResult_no_try(st) == IF st = "raised" THEN "propagate" ELSE "next"

\* Lines 297-301: an exception of a worker is logged, the loop goes on.
AfterResult(st) == "next"

Running == { c \in Courts : fstate[c] = "running" }

InPool == { futures[i].court : i \in 1 .. Len(futures) }

\* The checkpoint files an earlier run of the scraper can have left.
LeftRecords ==
  { [ last_year |-> start_year, last_month |-> "January", is_done |-> FALSE ],
    [ last_year |-> end_year, last_month |-> "January", is_done |-> TRUE ] }

LeftFiles ==
  { AbsentFile } \cup
    { json_dump(d) : d \in UNION { [ D -> LeftRecords ] : D \in SUBSET Courts } }

InitSched ==
  /\ site \in ConcSites
  /\ active = {}
  /\ checkpoint_file \in LeftFiles
  /\ csv = [ f \in CsvFiles |-> NoCsv ]
  /\ InitWorkers
  /\ appended = [ c \in Courts |-> << >> ]
  /\ runs = 0
  /\ faults = 0
  /\ seed \in SeedLists
  /\ max_workers \in 1 .. Cardinality(Courts)
  /\ sa_pc = "load"
  /\ courts_df = << >>
  /\ futures = << >>
  /\ fstate = [ c \in Courts |-> "none" ]
  /\ collected = {}
  /\ sa_i = 0
  /\ sigint = FALSE
  /\ IdleDl /\ IdleHs /\ IdleLd /\ IdleDm /\ IdleLk /\ IdleTs /\ IdleGh /\ IdlePm

\* Lines 262-277.
SaLoad ==
  /\ sa_pc = "load"
  /\ courts_df' \in sort_values(Tagged(seed, load_checkpoint(checkpoint_file).value))
  /\ sa_pc' = "submit"
  /\ UNCHANGED << seed, max_workers, futures, fstate, collected, sa_i, sigint >>
  /\ UNCHANGED << scrVars, dlVars, hsVars, ldVars, dmVars, lkVars, tsVars, ghVars, pmVars >>

\* Lines 293-294: one pass of the loop over the sorted rows.
SaSubmit ==
  /\ sa_pc = "submit"
  /\ IF Len(futures) < Len(courts_df)
     THEN LET row == courts_df[Len(futures) + 1]
          IN  /\ futures' = Append(futures, row)
              /\ fstate' = [ fstate EXCEPT ![row.court] = "pending" ]
              /\ UNCHANGED sa_pc
     ELSE /\ sa_pc' = "wait"
          /\ UNCHANGED << futures, fstate >>
  /\ UNCHANGED << seed, max_workers, courts_df, collected, sa_i, sigint >>
  /\ UNCHANGED << scrVars, dlVars, hsVars, ldVars, dmVars, lkVars, tsVars, ghVars, pmVars >>

\* A thread of the pool takes the oldest work item that was not cancelled
\* and calls scrape_court.
PoolTake(c) ==
  /\ sa_pc \notin { "off", "exited", "crashed" }
  /\ fstate[c] = "pending"
  /\ Cardinality(Running) < max_workers
  /\ \E k \in 1 .. Len(futures) :
       /\ futures[k].court = c
       /\ \A i \in 1 .. k - 1 : fstate[futures[i].court] # "pending"
  /\ fstate' = [ fstate EXCEPT ![c] = "running" ]
  /\ active' = active \cup { c }
  /\ UNCHANGED << seed, max_workers, sa_pc, courts_df, futures, collected, sa_i,
                  sigint >>
  /\ UNCHANGED << site, checkpoint_file, csv, pc, checkpoint_data, last_year,
                  last_month, year, todo, page, month_links, err, appended,
                  nwrites, runs, faults >>
  /\ UNCHANGED << dlVars, hsVars, ldVars, dmVars, lkVars, tsVars, ghVars, pmVars >>

\* scrape_court fails before its try block (line 193: the checkpoint file
\* cannot be opened); the exception leaves scrape_court.
StartRaises(c) ==
  /\ c \in active
  /\ pc[c] = "idle"
  /\ faults < MaxFaults
  /\ faults' = faults + 1
  /\ pc' = [ pc EXCEPT ![c] = "raised" ]
  /\ UNCHANGED << site, active, checkpoint_file, csv, checkpoint_data, last_year,
                  last_month, year, todo, page, month_links, err, appended,
                  nwrites, runs >>
  /\ UNCHANGED << dlVars, hsVars, ldVars, schVars, dmVars, lkVars, tsVars, ghVars, pmVars >>

\* scrape_court has returned or raised: the future is resolved.
PoolFinish(c) ==
  /\ fstate[c] = "running"
  /\ pc[c] \in { "returned", "error", "raised" }
  /\ fstate' = [ fstate EXCEPT
                   ![c] = IF pc[c] = "raised" THEN "raised" ELSE "done" ]
  /\ UNCHANGED << seed, max_workers, sa_pc, courts_df, futures, collected, sa_i,
                  sigint >>
  /\ UNCHANGED << scrVars, dlVars, hsVars, ldVars, dmVars, lkVars, tsVars, ghVars, pmVars >>

\* Lines 297-301: as_completed yields a resolved future; f.result().
SaCollect(c) ==
  /\ sa_pc = "wait"
  /\ c \in InPool \ collected
  /\ fstate[c] \in { "done", "raised" }
  /\ IF AfterResult(fstate[c]) = "next"
     THEN collected' = collected \cup { c } /\ UNCHANGED sa_pc
     ELSE sa_pc' = "finally_exc" /\ UNCHANGED collected
  /\ UNCHANGED << seed, max_workers, courts_df, futures, fstate, sa_i, sigint >>
  /\ UNCHANGED << scrVars, dlVars, hsVars, ldVars, dmVars, lkVars, tsVars, ghVars, pmVars >>

\* The loop over as_completed has ended.
SaCollected ==
  /\ sa_pc = "wait"
  /\ InPool \subseteq collected
  /\ sa_pc' = "finally"
  /\ UNCHANGED << seed, max_workers, courts_df, futures, fstate, collected, sa_i,
                  sigint >>
  /\ UNCHANGED << scrVars, dlVars, hsVars, ldVars, dmVars, lkVars, tsVars, ghVars, pmVars >>

\* Line 302: KeyboardInterrupt arrives in the main thread inside the try.
SaInterrupt ==
  /\ sa_pc \in { "submit", "wait" }
  /\ ~sigint
  /\ sigint' = TRUE
  /\ sa_pc' = "cancel"
  /\ sa_i' = 0
  /\ UNCHANGED << seed, max_workers, courts_df, futures, fstate, collected >>
  /\ UNCHANGED << scrVars, dlVars, hsVars, ldVars, dmVars, lkVars, tsVars, ghVars, pmVars >>

\* Lines 305-306: one pass of "for f in futures: f.cancel()"; cancel has an
\* effect on a future that is still pending only.
SaCancel ==
  /\ sa_pc = "cancel"
  /\ IF sa_i < Len(futures)
     THEN LET c == futures[sa_i + 1].court
          IN  /\ sa_i' = sa_i + 1
              /\ fstate' = [ fstate EXCEPT
                               ![c] = IF @ = "pending" THEN "cancelled" ELSE @ ]
              /\ UNCHANGED sa_pc
     ELSE /\ sa_pc' = "finally"
          /\ UNCHANGED << sa_i, fstate >>
  /\ UNCHANGED << seed, max_workers, courts_df, futures, collected, sigint >>
  /\ UNCHANGED << scrVars, dlVars, hsVars, ldVars, dmVars, lkVars, tsVars, ghVars, pmVars >>

\* Lines 307-312: executor.shutdown(wait=False); scrape_all returns, or the
\* exception goes on to its caller.
SaFinally ==
  /\ sa_pc \in { "finally", "finally_exc" }
  /\ sa_pc' = IF sa_pc = "finally" THEN "joining" ELSE "joining_exc"
  /\ UNCHANGED << seed, max_workers, courts_df, futures, fstate, collected, sa_i,
                  sigint >>
  /\ UNCHANGED << scrVars, dlVars, hsVars, ldVars, dmVars, lkVars, tsVars, ghVars, pmVars >>

\* Lines 315-317: the main thread has ended; the interpreter exits once the
\* threads of the pool have ended.
SaExit ==
  /\ sa_pc \in { "joining", "joining_exc" }
  /\ \A c \in Courts : fstate[c] \notin { "pending", "running" }
  /\ sa_pc' = IF sa_pc = "joining" THEN "exited" ELSE "crashed"
  /\ UNCHANGED << seed, max_workers, courts_df, futures, fstate, collected, sa_i,
                  sigint >>
  /\ UNCHANGED << scrVars, dlVars, hsVars, ldVars, dmVars, lkVars, tsVars, ghVars, pmVars >>

NextSched ==
  \/ SaLoad
  \/ SaSubmit
  \/ \E c \in Courts : PoolTake(c)
  \/ \E c \in Courts : Start(c)
  \/ \E c \in Courts : StartRaises(c)
  \/ \E c \in Courts : YearStep(c)
  \/ \E c \in Courts : PageStep(c)
  \/ \E c \in Courts : SaveMonth(c)
  \/ \E c \in Courts : MarkDone(c)
  \/ \E c \in Courts : PoolFinish(c)
  \/ \E c \in Courts : SaCollect(c)
  \/ SaCollected
  \/ SaInterrupt
  \/ SaCancel
  \/ SaFinally
  \/ SaExit

SpecSched == InitSched /\ [][NextSched]_vars

(***************************************************************************)
(* download.py: the checkpoint of the downloader maps a CSV file's name to *)
(* the index of the next row to process.                                   *)
(***************************************************************************)
\* get_checkpoint_value: 0 for a missing file and for a file json.load
\* rejects; else data.get(csv_file, 0).
get_checkpoint_value(file, f) ==
  IF file.kind = "absent"
  THEN [ raised |-> FALSE, value |-> 0 ]
  ELSE IF json_load(file).raised
       THEN [ raised |-> FALSE, value |-> 0 ]
       ELSE [ raised |-> FALSE,
              value |-> IF f \in DOMAIN file.data THEN file.data[f] ELSE 0 ]

\* A slip: the dict is not read from the file before the entry is set.
update_checkpoint_value_from_empty(file, f, new_value) ==
  json_dump(Put(EmptyMap, f, new_value))

\* update_checkpoint_value: under the lock, read the file (an unreadable one
\* gives {}), set the CSV's entry, write the whole dict back.
update_checkpoint_value(file, f, new_value) ==
  LET data == IF file.kind = "absent" \/ json_load(file).raised
              THEN EmptyMap
              ELSE file.data
  IN  json_dump(Put(data, f, new_value))

\* Lines 244-258: how the try block of a row ends.
RowOutcome(raises, opened, saved) ==
  IF raises THEN "exception"
  ELSE IF ~opened THEN "gate_failed"
  ELSE IF ~saved THEN "save_failed"
  ELSE "saved"

RowOutcomes == { RowOutcome(r, o, v) : r, o, v \in BOOLEAN }

\* A slip: no except clause, an exception in the try block leaves process_csv.
AfterTry_no_except(outcome) == IF outcome = "exception" THEN "raised" ELSE "update"

\* Lines 244-261: whatever the outcome, control reaches the checkpoint update.
AfterTry(outcome) == "update"

DlFileStates ==
  { AbsentFile,
    [ kind |-> "empty", data |-> EmptyMap ],
    [ kind |-> "garbage", data |-> EmptyMap ] }

InitDl ==
  /\ dl_file \in DlFileStates
  /\ dl_present \in [ DlCsvs -> BOOLEAN ]
  /\ dl_total \in [ DlCsvs -> 0 .. MaxRows ]
  /\ dl_pc = [ f \in DlCsvs |-> "idle" ]
  /\ dl_row = [ f \in DlCsvs |-> 0 ]
  /\ dl_start_idx = [ f \in DlCsvs |-> 0 ]
  /\ dl_started = [ f \in DlCsvs |-> {} ]
  /\ dl_outcome = [ f \in DlCsvs |-> "none" ]
  /\ html = {}
  /\ dl_runs = 0
  /\ IdleScr /\ IdleHs /\ IdleLd /\ IdleSch /\ IdleDm /\ IdleLk /\ IdleTs /\ IdleGh /\ IdlePm

(***************************************************************************)
(* process_csv, lines 203-217: the early returns and the resume index.     *)
(***************************************************************************)
DlStart(f) ==
  /\ dl_pc[f] = "idle"
  /\ LET r == get_checkpoint_value(dl_file, f)
     IN  IF ~dl_present[f]
         THEN /\ dl_pc' = [ dl_pc EXCEPT ![f] = "returned" ]
              /\ UNCHANGED << dl_row, dl_start_idx, dl_started >>
         ELSE IF r.raised
         THEN /\ dl_pc' = [ dl_pc EXCEPT ![f] = "raised" ]
              /\ UNCHANGED << dl_row, dl_start_idx, dl_started >>
         ELSE IF r.value >= dl_total[f]
         THEN /\ dl_pc' = [ dl_pc EXCEPT ![f] = "returned" ]
              /\ dl_start_idx' = [ dl_start_idx EXCEPT ![f] = r.value ]
              /\ UNCHANGED << dl_row, dl_started >>
         ELSE /\ dl_pc' = [ dl_pc EXCEPT ![f] = "row" ]
              /\ dl_start_idx' = [ dl_start_idx EXCEPT ![f] = r.value ]
              /\ dl_row' = [ dl_row EXCEPT ![f] = r.value ]
              /\ dl_started' = [ dl_started EXCEPT
                                   ![f] = @ \cup { << dl_runs, r.value >> } ]
  /\ UNCHANGED << dl_file, dl_present, dl_total, dl_outcome, html, dl_runs >>
  /\ UNCHANGED << scrVars, hsVars, ldVars, schVars, dmVars, lkVars, tsVars, ghVars, pmVars >>

(***************************************************************************)
(* Lines 223-258: one row, up to the end of its try block.  The page is    *)
(* opened (open_kanoon_page gives True or False), the print button is      *)
(* clicked if there, the HTML is saved; any of these may raise.            *)
(***************************************************************************)
DlRow(f) ==
  /\ dl_pc[f] = "row"
  /\ \E raises, opened, saved \in BOOLEAN :
       LET outcome == RowOutcome(raises, opened, saved)
       IN  /\ dl_outcome' = [ dl_outcome EXCEPT ![f] = outcome ]
           /\ dl_pc' = [ dl_pc EXCEPT ![f] = AfterTry(outcome) ]
           /\ html' = IF outcome = "saved" THEN html \cup { << f, dl_row[f] >> }
                      ELSE html
  /\ UNCHANGED << dl_file, dl_present, dl_total, dl_row, dl_start_idx,
                  dl_started, dl_runs >>
  /\ UNCHANGED << scrVars, hsVars, ldVars, schVars, dmVars, lkVars, tsVars, ghVars, pmVars >>

(***************************************************************************)
(* Line 261: update_checkpoint_value(csv_file, row_idx + 1), then the next *)
(* row or the end of the loop.                                             *)
(***************************************************************************)
DlUpdate(f) ==
  /\ dl_pc[f] = "update"
  /\ dl_file' = update_checkpoint_value(dl_file, f, dl_row[f] + 1)
  /\ dl_outcome' = [ dl_outcome EXCEPT ![f] = "none" ]
  /\ IF dl_row[f] + 1 < dl_total[f]
     THEN /\ dl_row' = [ dl_row EXCEPT ![f] = @ + 1 ]
          /\ dl_pc' = [ dl_pc EXCEPT ![f] = "row" ]
          /\ dl_started' = [ dl_started EXCEPT
                               ![f] = @ \cup { << dl_runs, dl_row[f] + 1 >> } ]
     ELSE /\ dl_pc' = [ dl_pc EXCEPT ![f] = "returned" ]
          /\ UNCHANGED << dl_row, dl_started >>
  /\ UNCHANGED << dl_present, dl_total, dl_start_idx, html, dl_runs >>
  /\ UNCHANGED << scrVars, hsVars, ldVars, schVars, dmVars, lkVars, tsVars, ghVars, pmVars >>

\* The downloader ends (killed at any point, or done) and is started again.
DlRestart ==
  /\ dl_runs < MaxRuns
  /\ \E f \in DlCsvs : dl_pc[f] # "idle"
  /\ dl_runs' = dl_runs + 1
  /\ dl_pc' = [ f \in DlCsvs |-> "idle" ]
  /\ dl_row' = [ f \in DlCsvs |-> 0 ]
  /\ dl_start_idx' = [ f \in DlCsvs |-> 0 ]
  /\ dl_outcome' = [ f \in DlCsvs |-> "none" ]
  /\ UNCHANGED << dl_file, dl_present, dl_total, dl_started, html >>
  /\ UNCHANGED << scrVars, hsVars, ldVars, schVars, dmVars, lkVars, tsVars, ghVars, pmVars >>

NextDl ==
  \/ \E f \in DlCsvs : DlStart(f)
  \/ \E f \in DlCsvs : DlRow(f)
  \/ \E f \in DlCsvs : DlUpdate(f)
  \/ DlRestart

SpecDownload == InitDl /\ [][NextDl]_vars

(***************************************************************************)
(* update_checkpoint_value, lines 86-87: open(..., "w") truncates the file *)
(* and json.dump then writes it.  A process killed between the two leaves  *)
(* a zero-byte file, one killed part way through the dump leaves a text    *)
(* json.load rejects.  The process is then started again.                  *)
(***************************************************************************)
CutWrites ==
  { [ kind |-> "empty", data |-> EmptyMap ],
    [ kind |-> "garbage", data |-> EmptyMap ] }

DlKillInWrite(f) ==
  /\ dl_runs < MaxRuns
  /\ dl_pc[f] = "update"
  /\ dl_file' \in CutWrites
  /\ dl_runs' = dl_runs + 1
  /\ dl_pc' = [ g \in DlCsvs |-> "idle" ]
  /\ dl_row' = [ g \in DlCsvs |-> 0 ]
  /\ dl_start_idx' = [ g \in DlCsvs |-> 0 ]
  /\ dl_outcome' = [ g \in DlCsvs |-> "none" ]
  /\ UNCHANGED << dl_present, dl_total, dl_started, html >>
  /\ UNCHANGED << scrVars, hsVars, ldVars, schVars, dmVars, lkVars, tsVars, ghVars, pmVars >>

NextDlCrash ==
  \/ NextDl
  \/ \E f \in DlCsvs : DlKillInWrite(f)

SpecDownloadCrash == InitDl /\ [][NextDlCrash]_vars

(***************************************************************************)
(* main of download.py, lines 269-282: submit process_csv for every file   *)
(* of CSV_FILES, then take the result of every future.  The pool has a     *)
(* thread for every file, so a submitted call starts at once.              *)
(***************************************************************************)
CSV_FILES == << "X", "Y" >>

\* A slip: no try around f.result() in main.
AfterFutureResult_no_try(st) == IF st = "raised" THEN "propagate" ELSE "next"

\* Lines 278-282: an exception of a worker is logged, the loop goes on.
AfterFutureResult(st) == "next"

\* The checkpoint files an earlier run of the downloader can have left.
DlLeftFiles ==
  { json_dump(d) : d \in UNION { [ D -> 1 .. MaxRows ] : D \in SUBSET DlCsvs } }

InitDlMain ==
  /\ dl_file \in DlFileStates \cup DlLeftFiles
  /\ dl_present \in [ DlCsvs -> BOOLEAN ]
  /\ dl_total \in [ DlCsvs -> 0 .. MaxRows ]
  /\ dl_pc = [ f \in DlCsvs |-> "unsubmitted" ]
  /\ dl_row = [ f \in DlCsvs |-> 0 ]
  /\ dl_start_idx = [ f \in DlCsvs |-> 0 ]
  /\ dl_started = [ f \in DlCsvs |-> {} ]
  /\ dl_outcome = [ f \in DlCsvs |-> "none" ]
  /\ html = {}
  /\ dl_runs = 0
  /\ dm_pc = "submit"
  /\ dm_next = 0
  /\ dm_collected = {}
  /\ IdleScr /\ IdleHs /\ IdleLd /\ IdleSch /\ IdleLk /\ IdleTs /\ IdleGh /\ IdlePm

\* Lines 272-276: one pass of the loop over CSV_FILES.
DmSubmit ==
  /\ dm_pc = "submit"
  /\ IF dm_next < Len(CSV_FILES)
     THEN /\ dl_pc' = [ dl_pc EXCEPT ![CSV_FILES[dm_next + 1]] = "idle" ]
          /\ dm_next' = dm_next + 1
          /\ UNCHANGED dm_pc
     ELSE /\ dm_pc' = "wait"
          /\ UNCHANGED << dl_pc, dm_next >>
  /\ UNCHANGED << dl_file, dl_present, dl_total, dl_row, dl_start_idx, dl_started,
                  dl_outcome, html, dl_runs, dm_collected >>
  /\ UNCHANGED << scrVars, hsVars, ldVars, schVars, lkVars, tsVars, ghVars, pmVars >>

\* process_csv fails outside its try block (line 236: os.makedirs raises);
\* the exception leaves process_csv.
DlRaise(f) ==
  /\ dl_pc[f] = "row"
  /\ faults < MaxFaults
  /\ faults' = faults + 1
  /\ dl_pc' = [ dl_pc EXCEPT ![f] = "raised" ]
  /\ UNCHANGED << dl_file, dl_present, dl_total, dl_row, dl_start_idx, dl_started,
                  dl_outcome, html, dl_runs >>
  /\ UNCHANGED << site, active, checkpoint_file, csv, pc, checkpoint_data,
                  last_year, last_month, year, todo, page, month_links, err,
                  appended, nwrites, runs >>
  /\ UNCHANGED << hsVars, ldVars, schVars, dmVars, lkVars, tsVars, ghVars, pmVars >>

\* Lines 278-282: as_completed yields a resolved future; f.result().
DmCollect(f) ==
  /\ dm_pc = "wait"
  /\ f \in DlCsvs \ dm_collected
  /\ dl_pc[f] \in { "returned", "raised" }
  /\ IF AfterFutureResult(dl_pc[f]) = "next"
     THEN dm_collected' = dm_collected \cup { f } /\ UNCHANGED dm_pc
     ELSE dm_pc' = "shutdown_exc" /\ UNCHANGED dm_collected
  /\ UNCHANGED dm_next
  /\ UNCHANGED << scrVars, dlVars, hsVars, ldVars, schVars, lkVars, tsVars, ghVars, pmVars >>

\* The loop over as_completed has ended.
DmCollected ==
  /\ dm_pc = "wait"
  /\ dm_collected = DlCsvs
  /\ dm_pc' = "shutdown"
  /\ UNCHANGED << dm_next, dm_collected >>
  /\ UNCHANGED << scrVars, dlVars, hsVars, ldVars, schVars, lkVars, tsVars, ghVars, pmVars >>

\* The end of the with block: shutdown(wait=True), then main returns or the
\* exception goes on to its caller.
DmExit ==
  /\ dm_pc \in { "shutdown", "shutdown_exc" }
  /\ \A f \in DlCsvs : dl_pc[f] \in { "returned", "raised" }
  /\ dm_pc' = IF dm_pc = "shutdown" THEN "exited" ELSE "crashed"
  /\ UNCHANGED << dm_next, dm_collected >>
  /\ UNCHANGED << scrVars, dlVars, hsVars, ldVars, schVars, lkVars, tsVars, ghVars, pmVars >>

NextDlMain ==
  \/ DmSubmit
  \/ \E f \in DlCsvs : DlStart(f)
  \/ \E f \in DlCsvs : DlRow(f)
  \/ \E f \in DlCsvs : DlRaise(f)
  \/ \E f \in DlCsvs : DlUpdate(f)
  \/ \E f \in DlCsvs : DmCollect(f)
  \/ DmCollected
  \/ DmExit

(***************************************************************************)
(* Either scheduler with its workers: scrape_all with scrape_court, or     *)
(* main of download.py with process_csv.                                   *)
(***************************************************************************)
InitPools == InitSched \/ InitDlMain

NextPools == NextSched \/ NextDlMain

SpecPools == InitPools /\ [][NextPools]_vars

(***************************************************************************)
(* open_kanoon_page(sb, url, max_retries), lines 93-141.                   *)
(***************************************************************************)
\* A slip: one attempt too many.
InRange_off_by_one(attempt, max_retries) == attempt <= max_retries + 1

\* for attempt in range(1, max_retries + 1)
InRange(attempt, max_retries) == attempt <= max_retries

InitHs ==
  /\ hs_max \in 0 .. MaxRetriesBound
  /\ hs_pc = "attempt"
  /\ hs_attempt = 1
  /\ hs_polls = 0
  /\ hs_loads = 0
  /\ hs_missed = 0
  /\ hs_result = "none"
  /\ IdleScr /\ IdleDl /\ IdleLd /\ IdleSch /\ IdleDm /\ IdleLk /\ IdleTs /\ IdleGh /\ IdlePm

\* Lines 98-117: a new attempt opens the page afresh, answers a challenge if
\* one shows, and enters the polling loop.
HsOpen ==
  /\ hs_pc = "attempt"
  /\ InRange(hs_attempt, hs_max)
  /\ hs_loads' = hs_loads + 1
  /\ hs_polls' = 0
  /\ hs_pc' = "poll"
  /\ UNCHANGED << hs_max, hs_attempt, hs_missed, hs_result >>
  /\ UNCHANGED << scrVars, dlVars, ldVars, schVars, dmVars, lkVars, tsVars, ghVars, pmVars >>

\* Lines 118-138: one pass of "for _ in range(10)"; the marker is visible or not.
HsPoll ==
  /\ hs_pc = "poll"
  /\ hs_polls < PollLimit
  /\ hs_polls' = hs_polls + 1
  /\ \E visible \in BOOLEAN :
       IF visible
       THEN \* found_it: return True
            /\ hs_result' = "True"
            /\ hs_pc' = "done"
            /\ UNCHANGED << hs_attempt, hs_missed >>
       ELSE IF hs_polls + 1 = PollLimit
       THEN \* the polls are used up: warn, next attempt
            /\ hs_attempt' = hs_attempt + 1
            /\ hs_missed' = hs_missed + 1
            /\ hs_pc' = "attempt"
            /\ UNCHANGED hs_result
       ELSE UNCHANGED << hs_attempt, hs_missed, hs_pc, hs_result >>
  /\ UNCHANGED << hs_max, hs_loads >>
  /\ UNCHANGED << scrVars, dlVars, ldVars, schVars, dmVars, lkVars, tsVars, ghVars, pmVars >>

\* Lines 140-141: the for loop has ended; return False.
HsFail ==
  /\ hs_pc = "attempt"
  /\ ~InRange(hs_attempt, hs_max)
  /\ hs_result' = "False"
  /\ hs_pc' = "done"
  /\ UNCHANGED << hs_max, hs_attempt, hs_polls, hs_loads, hs_missed >>
  /\ UNCHANGED << scrVars, dlVars, ldVars, schVars, dmVars, lkVars, tsVars, ghVars, pmVars >>

NextHs == HsOpen \/ HsPoll \/ HsFail

\* The function runs on: no step of it waits for another thread.
SpecHandshake == InitHs /\ [][NextHs]_vars /\ WF_vars(NextHs)

(***************************************************************************)
(* Calls of load_checkpoint and get_checkpoint_value on the files a cut    *)
(* run can leave behind.                                                   *)
(***************************************************************************)
Records ==
  [ last_year : { NoYear } \cup Years,
    last_month : { None } \cup SiteMonths,
    is_done : BOOLEAN ]

ScraperFileStates ==
  DlFileStates \cup
    { json_dump(d) : d \in UNION { [ D -> Records ] : D \in SUBSET Courts } }

DlObjectStates ==
  { json_dump(d) : d \in UNION { [ D -> 0 .. MaxRows ] : D \in SUBSET DlCsvs } }

InitLd ==
  /\ checkpoint_file \in ScraperFileStates
  /\ dl_file \in DlFileStates \cup DlObjectStates
  /\ site \in ConcSites
  /\ active = {}
  /\ csv = [ f \in CsvFiles |-> NoCsv ]
  /\ InitWorkers
  /\ appended = [ c \in Courts |-> << >> ]
  /\ runs = 0
  /\ faults = 0
  /\ dl_present = [ f \in DlCsvs |-> FALSE ]
  /\ dl_total = [ f \in DlCsvs |-> 0 ]
  /\ dl_pc = [ f \in DlCsvs |-> "idle" ]
  /\ dl_row = [ f \in DlCsvs |-> 0 ]
  /\ dl_start_idx = [ f \in DlCsvs |-> 0 ]
  /\ dl_started = [ f \in DlCsvs |-> {} ]
  /\ dl_outcome = [ f \in DlCsvs |-> "none" ]
  /\ html = {}
  /\ dl_runs = 0
  /\ IdleHs /\ IdleLd /\ IdleSch /\ IdleDm /\ IdleLk /\ IdleTs /\ IdleGh /\ IdlePm

CallLoad ==
  /\ ~ld_result.called
  /\ ld_result' = [ called |-> TRUE,
                    raised |-> load_checkpoint(checkpoint_file).raised,
                    value |-> load_checkpoint(checkpoint_file).value ]
  /\ UNCHANGED << gv_result, scrVars, dlVars, hsVars, schVars, dmVars, lkVars, tsVars, ghVars, pmVars >>

CallGet(f) ==
  /\ ~gv_result.called
  /\ gv_result' = [ called |-> TRUE,
                    raised |-> get_checkpoint_value(dl_file, f).raised,
                    value |-> get_checkpoint_value(dl_file, f).value,
                    csv_file |-> f ]
  /\ UNCHANGED << ld_result, scrVars, dlVars, hsVars, schVars, dmVars, lkVars, tsVars, ghVars, pmVars >>

NextLd == CallLoad \/ \E f \in DlCsvs : CallGet(f)

SpecLoad == InitLd /\ [][NextLd]_vars

(***************************************************************************)
(* The checkpoint calls step by step, with the lock.  A thread is either   *)
(* outside every checkpoint call ("net": in a page load, a poll sleep or a *)
(* politeness delay) or in one of                                          *)
(*   load_checkpoint / get_checkpoint_value:  acquire, read, release       *)
(*   save_checkpoint:             acquire, truncate, dump, release         *)
(*   update_checkpoint_value:     acquire, read, truncate, dump, release   *)
(* open(..., "w") truncates the file, json.dump writes it piece by piece.  *)
(***************************************************************************)
MaxCalls == 2

ThreadsOf(prog) == IF prog = "scraper" THEN Courts ELSE DlCsvs

OpsOf(prog) == IF prog = "scraper" THEN { "load", "save" } ELSE { "get", "update" }

\* The stage after "acquire" and after "read".
FirstStage(op) == IF op = "save" THEN "truncate" ELSE "read"

AfterRead(op) == IF op = "update" THEN "truncate" ELSE "release"

\* A slip: the lock is taken without waiting for its holder.
CanAcquire_unguarded(holder) == TRUE

\* "with checkpoint_lock:" blocks while another thread holds the lock.
CanAcquire(holder) == holder = NoThread

InitLock ==
  /\ lk_prog \in { "scraper", "download" }
  /\ checkpoint_lock = NoThread
  /\ lk_pc = [ t \in Threads |-> OutsideCalls ]
  /\ lk_seen = [ t \in Threads |-> NoRead ]
  /\ lk_calls = [ t \in Threads |-> 0 ]
  /\ IdleScr /\ IdleDl /\ IdleHs /\ IdleLd /\ IdleSch /\ IdleDm /\ IdleTs /\ IdleGh /\ IdlePm

\* The checkpoint file of the running program.
LkFile == IF lk_prog = "scraper" THEN checkpoint_file ELSE dl_file

scrOther ==
  << site, active, csv, pc, checkpoint_data, last_year, last_month, year, todo,
     page, month_links, err, appended, nwrites, runs, faults >>

dlOther ==
  << dl_present, dl_total, dl_pc, dl_row, dl_start_idx, dl_started, dl_outcome,
     html, dl_runs >>

LkWrite(file) ==
  /\ IF lk_prog = "scraper"
     THEN checkpoint_file' = file /\ UNCHANGED dl_file
     ELSE dl_file' = file /\ UNCHANGED checkpoint_file
  /\ UNCHANGED << scrOther, dlOther >>

\* What the call of thread t writes.
LkContent(t) ==
  IF lk_pc[t].op = "save"
  THEN save_checkpoint(Put(EmptyMap, t, NewRecord))
  ELSE update_checkpoint_value(lk_seen[t], t, lk_calls[t] + 1)

\* A thread leaves its network wait and calls a checkpoint function.
LkCall(t) ==
  /\ t \in ThreadsOf(lk_prog)
  /\ lk_pc[t].stage = "net"
  /\ lk_calls[t] < MaxCalls
  /\ \E op \in OpsOf(lk_prog) :
       lk_pc' = [ lk_pc EXCEPT ![t] = [ op |-> op, stage |-> "acquire" ] ]
  /\ UNCHANGED << lk_prog, checkpoint_lock, lk_seen, lk_calls >>
  /\ UNCHANGED << scrVars, dlVars, hsVars, ldVars, schVars, dmVars, tsVars, ghVars, pmVars >>

\* scraper.py lines 49, 66; download.py lines 53, 71.
LkAcquire(t) ==
  /\ lk_pc[t].stage = "acquire"
  /\ CanAcquire(checkpoint_lock)
  /\ checkpoint_lock' = t
  /\ lk_pc' = [ lk_pc EXCEPT ![t].stage = FirstStage(lk_pc[t].op) ]
  /\ UNCHANGED << lk_prog, lk_seen, lk_calls >>
  /\ UNCHANGED << scrVars, dlVars, hsVars, ldVars, schVars, dmVars, tsVars, ghVars, pmVars >>

\* scraper.py lines 50-62; download.py lines 54-62, 73-81.
LkRead(t) ==
  /\ lk_pc[t].stage = "read"
  /\ lk_seen' = [ lk_seen EXCEPT ![t] = LkFile ]
  /\ lk_pc' = [ lk_pc EXCEPT ![t].stage = AfterRead(lk_pc[t].op) ]
  /\ UNCHANGED << lk_prog, checkpoint_lock, lk_calls >>
  /\ UNCHANGED << scrVars, dlVars, hsVars, ldVars, schVars, dmVars, tsVars, ghVars, pmVars >>

\* scraper.py line 67; download.py line 86.
LkTruncate(t) ==
  /\ lk_pc[t].stage = "truncate"
  /\ LkWrite([ kind |-> "empty", data |-> EmptyMap ])
  /\ lk_pc' = [ lk_pc EXCEPT ![t].stage = "dump" ]
  /\ UNCHANGED << lk_prog, checkpoint_lock, lk_seen, lk_calls >>
  /\ UNCHANGED << hsVars, ldVars, schVars, dmVars, tsVars, ghVars, pmVars >>

\* scraper.py line 68; download.py line 87: first a part of the text is in
\* the file, then all of it.
LkDump(t) ==
  /\ lk_pc[t].stage = "dump"
  /\ IF LkFile.kind = "empty"
     THEN /\ LkWrite([ kind |-> "garbage", data |-> EmptyMap ])
          /\ UNCHANGED lk_pc
     ELSE /\ LkWrite(LkContent(t))
          /\ lk_pc' = [ lk_pc EXCEPT ![t].stage = "release" ]
  /\ IF LkFile.kind # "empty" /\ lk_pc[t].op = "update"
     THEN lk_wrote' = [ lk_wrote EXCEPT ![t] = lk_calls[t] + 1 ]
     ELSE UNCHANGED lk_wrote
  /\ UNCHANGED << lk_prog, checkpoint_lock, lk_seen, lk_calls >>
  /\ UNCHANGED << hsVars, ldVars, schVars, dmVars, tsVars, recorded, passed, pmVars >>

\* The end of the with block: the lock is released, the call returns.
LkRelease(t) ==
  /\ lk_pc[t].stage = "release"
  /\ checkpoint_lock' = NoThread
  /\ lk_pc' = [ lk_pc EXCEPT ![t] = OutsideCalls ]
  /\ lk_calls' = [ lk_calls EXCEPT ![t] = @ + 1 ]
  /\ UNCHANGED << lk_prog, lk_seen >>
  /\ UNCHANGED << scrVars, dlVars, hsVars, ldVars, schVars, dmVars, tsVars, ghVars, pmVars >>

NextLock ==
  \/ \E t \in Threads : LkCall(t)
  \/ \E t \in Threads : LkAcquire(t)
  \/ \E t \in Threads : LkRead(t)
  \/ \E t \in Threads : LkTruncate(t)
  \/ \E t \in Threads : LkDump(t)
  \/ \E t \in Threads : LkRelease(t)

SpecLock == InitLock /\ [][NextLock]_vars

(***************************************************************************)
(* download.py: the workers of the CSV files call get_checkpoint_value and *)
(* update_checkpoint_value in any interleaving, on a checkpoint file that  *)
(* is absent or well-formed when the run starts.                           *)
(***************************************************************************)
\* The entry of a CSV in a dict.
Entry(data, f) == IF f \in DOMAIN data THEN data[f] ELSE NoEntry

\* The dicts a checkpoint file of download.py can hold when a run starts.
StartDicts ==
  UNION { [ fs -> 0 .. MaxCalls ] : fs \in SUBSET DlCsvs }

InitUpdates ==
  /\ lk_prog = "download"
  /\ checkpoint_lock = NoThread
  /\ lk_pc = [ t \in Threads |-> OutsideCalls ]
  /\ lk_seen = [ t \in Threads |-> NoRead ]
  /\ lk_calls = [ t \in Threads |-> 0 ]
  /\ dl_file \in { AbsentFile } \cup { json_dump(d) : d \in StartDicts }
  /\ dl_present = [ f \in DlCsvs |-> FALSE ]
  /\ dl_total = [ f \in DlCsvs |-> 0 ]
  /\ dl_pc = [ f \in DlCsvs |-> "unsubmitted" ]
  /\ dl_row = [ f \in DlCsvs |-> 0 ]
  /\ dl_start_idx = [ f \in DlCsvs |-> 0 ]
  /\ dl_started = [ f \in DlCsvs |-> {} ]
  /\ dl_outcome = [ f \in DlCsvs |-> "none" ]
  /\ html = {}
  /\ dl_runs = 0
  /\ recorded = {}
  /\ passed = {}
  /\ lk_wrote = [ t \in Threads |-> Entry(dl_file.data, t) ]
  /\ IdleScr /\ IdleHs /\ IdleLd /\ IdleSch /\ IdleDm /\ IdleTs /\ IdlePm

SpecUpdates == InitUpdates /\ [][NextLock]_vars

(***************************************************************************)
(* test_2020.py: main removes the files of an earlier test, builds a       *)
(* Scraper2020 for 2020 .. 2020 and calls its scrape_all, which reads the  *)
(* seed list and calls self.process_year(court, 2020, {'last_month':       *)
(* None}) for every row.                                                   *)
(***************************************************************************)
\* The methods IndianKanoonScraper defines (scraper.py) and Scraper2020
\* inherits or overrides.
Methods ==
  { "__init__", "setup_logging", "load_checkpoint", "save_checkpoint",
    "bypass_cloudflare", "get_month_links", "save_links_batch",
    "process_month_page", "scrape_court", "scrape_all" }

\* Attribute lookup on the scraper object: AttributeError for a name that
\* is not defined.
HasMethod(name) == name \in Methods

InitTest ==
  /\ seed \in SeedLists
  /\ checkpoint_file \in LeftFiles
  /\ ts_links \in BOOLEAN
  /\ ts_pc = "cleanup"
  /\ ts_idx = 0
  /\ ts_calls = << >>
  /\ site \in ConcSites
  /\ active = {}
  /\ csv = [ f \in CsvFiles |-> NoCsv ]
  /\ InitWorkers
  /\ appended = [ c \in Courts |-> << >> ]
  /\ runs = 0
  /\ faults = 0
  /\ max_workers = 5
  /\ sa_pc = "off"
  /\ courts_df = << >>
  /\ futures = << >>
  /\ fstate = [ c \in Courts |-> "none" ]
  /\ collected = {}
  /\ sa_i = 0
  /\ sigint = FALSE
  /\ IdleDl /\ IdleHs /\ IdleLd /\ IdleDm /\ IdleLk /\ IdleGh /\ IdlePm

\* main, lines 24-28: the files of an earlier test are removed.
TsCleanup ==
  /\ ts_pc = "cleanup"
  /\ checkpoint_file' = AbsentFile
  /\ ts_links' = FALSE
  /\ ts_pc' = "construct"
  /\ UNCHANGED << ts_idx, ts_calls, scrOther >>
  /\ UNCHANGED << dlVars, hsVars, ldVars, schVars, dmVars, lkVars, ghVars, pmVars >>

\* main, lines 31-36, and scrape_all, lines 11-12.
TsConstruct ==
  /\ ts_pc = "construct"
  /\ ts_pc' = "loop"
  /\ UNCHANGED << ts_idx, ts_calls, ts_links >>
  /\ UNCHANGED << scrVars, dlVars, hsVars, ldVars, schVars, dmVars, lkVars, ghVars, pmVars >>

\* scrape_all, lines 15-17: one pass of the loop over the seed list.
TsCourt ==
  /\ ts_pc = "loop"
  /\ ts_idx < Len(seed)
  /\ IF HasMethod("process_year")
     THEN /\ ts_calls' = Append(ts_calls, [ court |-> seed[ts_idx + 1],
                                            year |-> 2020, last_month |-> None ])
          /\ ts_idx' = ts_idx + 1
          /\ UNCHANGED ts_pc
     ELSE \* AttributeError, caught at line 19
          /\ ts_pc' = "except"
          /\ UNCHANGED << ts_idx, ts_calls >>
  /\ UNCHANGED ts_links
  /\ UNCHANGED << scrVars, dlVars, hsVars, ldVars, schVars, dmVars, lkVars, ghVars, pmVars >>

\* The loop has ended: scrape_all returns; main, lines 38-49.
TsLoopEnd ==
  /\ ts_pc = "loop"
  /\ ts_idx = Len(seed)
  /\ ts_pc' = "exited"
  /\ UNCHANGED << ts_idx, ts_calls, ts_links >>
  /\ UNCHANGED << scrVars, dlVars, hsVars, ldVars, schVars, dmVars, lkVars, ghVars, pmVars >>

\* scrape_all, lines 19-21: log and raise; main, lines 51-53: log and raise.
TsReraise ==
  /\ ts_pc \in { "except", "main_except" }
  /\ ts_pc' = IF ts_pc = "except" THEN "main_except" ELSE "raised"
  /\ UNCHANGED << ts_idx, ts_calls, ts_links >>
  /\ UNCHANGED << scrVars, dlVars, hsVars, ldVars, schVars, dmVars, lkVars, ghVars, pmVars >>

NextTest == TsCleanup \/ TsConstruct \/ TsCourt \/ TsLoopEnd \/ TsReraise

SpecTest == InitTest /\ [][NextTest]_vars

(***************************************************************************)
(* Helpers of the properties.                                              *)
(***************************************************************************)
\* The record the checkpoint file holds for a court; NewRecord when none.
Persisted(c) ==
  IF checkpoint_file.kind = "object" /\ c \in DOMAIN checkpoint_file.data
  THEN checkpoint_file.data[c]
  ELSE NewRecord

HasRecord(c) ==
  checkpoint_file.kind = "object" /\ c \in DOMAIN checkpoint_file.data

\* The place of a checkpoint record in (year, calendar index of month) order.
Key(rec) ==
  IF rec.last_year = NoYear THEN 0
  ELSE rec.last_year * Len(month_names)
       + (IF rec.last_month \in MonthNameSet THEN MonthIndex(rec.last_month) + 1 ELSE 0)

\* The rows one page of a month gives.
PageRows(c, y, m, p) ==
  IF site.chain[p] > 0
  THEN << [ court |-> c, year |-> y, month |-> m, page |-> p, n |-> site.chain[p] ] >>
  ELSE << >>

RECURSIVE MonthRows(_, _, _, _)
\* The rows of pages p .. last of a month.
MonthRows(c, y, m, p) ==
  IF p > Len(site.chain) THEN << >>
  ELSE PageRows(c, y, m, p) \o MonthRows(c, y, m, p + 1)

RECURSIVE YearRows(_, _, _)
YearRows(c, y, months) ==
  IF months = << >> THEN << >>
  ELSE MonthRows(c, y, Head(months), 1) \o YearRows(c, y, Tail(months))

RECURSIVE RowsFrom(_, _)
\* What one uninterrupted run without failures writes for years y .. end_year.
RowsFrom(c, y) ==
  IF y > end_year THEN << >>
  ELSE YearRows(c, y, SelectSeq(YearPageAnchors(site, y), LAMBDA t : t \in MonthNameSet))
         \o RowsFrom(c, y + 1)

UninterruptedRows(c) == RowsFrom(c, start_year)

\* Every year page lists its month links in calendar order.
CalendarOrdered ==
  \A y \in Years :
    \A i, j \in 1 .. Len(site.yearPage[y]) :
      i < j => MonthIndex(site.yearPage[y][i]) <= MonthIndex(site.yearPage[y][j])

\* Every year page lists distinct months, in calendar order.
DistinctCalendarOrdered ==
  \A y \in Years :
    \A i, j \in 1 .. Len(site.yearPage[y]) :
      i < j => MonthIndex(site.yearPage[y][i]) < MonthIndex(site.yearPage[y][j])

(***************************************************************************)
(* C1.  A run that is killed and resumed from the checkpoint leaves in the *)
(* court's output file exactly the records one uninterrupted run leaves:   *)
(* none twice, none missing.  (Stated for sites that list distinct months  *)
(* in calendar order and for runs in which no page and no gate raised, so  *)
(* that the kill is the only disturbance.)                                 *)
(***************************************************************************)
C1_IdempotentResume ==
  \A c \in active :
    (/\ pc[c] = "returned"
     /\ Persisted(c).is_done
     /\ faults = 0
     /\ DistinctCalendarOrdered)
      => csv[csv_file(c)].rows = UninterruptedRows(c)

(***************************************************************************)
(* C2.  A save by one worker never removes, resets or moves backwards the  *)
(* persisted record of another court: a court's persisted record changes   *)
(* only in a step in which its own worker writes its own record.           *)
(***************************************************************************)
OwnWrite(c) ==
  /\ pc[c] \in { "ckpt", "year" }
  /\ checkpoint_data'[c] # checkpoint_data[c]
  /\ c \in DOMAIN checkpoint_data'[c]
  /\ checkpoint_file' = save_checkpoint(checkpoint_data'[c])

C2_NoLostUpdates ==
  [][ \A c \in Courts :
        (HasRecord(c)' # HasRecord(c) \/ Persisted(c)' # Persisted(c)) => OwnWrite(c)
    ]_vars

(***************************************************************************)
(* C3.  The (year, month) values a worker writes during one run are        *)
(* non-decreasing in (year, calendar index) order.  As claimed: whatever   *)
(* the order of the month links on a year page.  As amended: when every    *)
(* year page lists its month links in calendar order.                      *)
(***************************************************************************)
WritesInOrder ==
  \A c \in Courts :
    (pc[c] = "ckpt" /\ pc'[c] # "ckpt" /\ pc'[c] # "idle" /\ nwrites[c] > 0)
      => Key(checkpoint_data[c][c]) <= Key(checkpoint_data'[c][c])

C3_MonotoneAnyOrder == [][ WritesInOrder ]_vars

C3_MonotoneCalendarOrder == [][ CalendarOrdered => WritesInOrder ]_vars

C3_Witness ==
  \E c \in Courts : CalendarOrdered /\ nwrites[c] >= 2 /\ runs >= 1

(***************************************************************************)
(* C4.  Whenever a court's persisted record has is_done = true, its        *)
(* last_year is end_year and the last month listed for that year is the    *)
(* one recorded.                                                           *)
(***************************************************************************)
C4_DoneInvariant ==
  \A c \in Courts :
    (HasRecord(c) /\ Persisted(c).is_done)
      => /\ Persisted(c).last_year = end_year
         /\ site.yearPage[end_year] # << >>
         /\ Persisted(c).last_month
              = site.yearPage[end_year][Len(site.yearPage[end_year])]

C6_OutputIsolation ==
  \A f \in DOMAIN csv :
    \A i \in 1 .. Len(csv[f].rows) : csv[f].rows[i].court = f[1]

C6_Witness ==
  \A c \in Courts : csv[csv_file(c)].rows # << >> /\ pc[c] = "page"

(***************************************************************************)
(* C8.  A gate failure on a year page does not end the court's traversal:  *)
(* the worker is still walking the years, or has walked them all.          *)
(***************************************************************************)
C8_GateFailureNotFatal ==
  \A c \in Courts :
    err[c] = "gate" => pc[c] \in { "year", "page", "ckpt", "returned" }

(***************************************************************************)
(* C7.  load_checkpoint, and get_checkpoint_value of the downloader, never *)
(* raise, and on an absent, zero-byte or malformed file they give what     *)
(* they give when there is no checkpoint: the empty mapping, resp. 0.      *)
(***************************************************************************)
Unreadable == { "absent", "empty", "garbage" }

C7_CorruptCheckpointResilient ==
  /\ ld_result.called =>
       /\ ~ld_result.raised
       /\ checkpoint_file.kind \in Unreadable =>
            ld_result.value = load_checkpoint(AbsentFile).value
  /\ gv_result.called =>
       /\ ~gv_result.raised
       /\ dl_file.kind \in Unreadable =>
            gv_result.value = get_checkpoint_value(AbsentFile, gv_result.csv_file).value

C7_Witness ==
  /\ ld_result.called /\ checkpoint_file.kind = "garbage"
  /\ gv_result.called /\ dl_file.kind = "empty"

(***************************************************************************)
(* C9.  open_kanoon_page ends after at most max_retries attempts, each     *)
(* begun by a fresh page load and polling the marker at most 10 times; it  *)
(* returns True in the attempt that sees the marker, with no attempt       *)
(* after it, and False exactly when max_retries attempts ended without     *)
(* the marker.                                                             *)
(***************************************************************************)
C9_Bounds ==
  /\ hs_loads <= hs_max
  /\ hs_polls <= PollLimit
  /\ hs_missed = hs_attempt - 1
  /\ hs_pc = "poll" => hs_loads = hs_attempt
  /\ hs_result = "True" =>
       hs_pc = "done" /\ hs_loads = hs_attempt /\ hs_missed < hs_max
  /\ hs_result = "False" =>
       hs_pc = "done" /\ hs_loads = hs_max /\ hs_missed = hs_max
  /\ hs_pc = "done" =>
       (hs_result = "False" <=> hs_missed = hs_max) /\ hs_result # "none"

C9_BoundedHandshake == []C9_Bounds /\ <>(hs_pc = "done")

C9_Witness ==
  hs_result = "True" /\ hs_missed >= 1 /\ hs_polls = PollLimit

(***************************************************************************)
(* C10.  In process_csv the cursor of a CSV changes only in the update     *)
(* that follows a row whose outcome is final, and then to row_idx + 1,     *)
(* one more than before; every outcome of a row (saved, handshake failed,  *)
(* save failed, exception) leads to that update; and when process_csv has *)
(* returned for a CSV that exists, the cursor equals total_rows.           *)
(***************************************************************************)
Cursor(f) == get_checkpoint_value(dl_file, f).value

C10_CursorStep ==
  \A f \in DlCsvs :
    /\ Cursor(f)' # Cursor(f) =>
         /\ dl_pc[f] = "update"
         /\ dl_outcome[f] \in RowOutcomes
         /\ Cursor(f)' = dl_row[f] + 1
         /\ Cursor(f)' = Cursor(f) + 1
    /\ (dl_pc[f] = "row" /\ dl_pc'[f] \notin { "row", "idle" }) =>
         dl_pc'[f] = "update" /\ dl_outcome'[f] \in RowOutcomes
    /\ (dl_pc[f] = "update" /\ dl_pc'[f] \notin { "update", "idle" }) =>
         Cursor(f)' = dl_row[f] + 1

C10_CursorFinal ==
  \A f \in DlCsvs :
    (dl_pc[f] = "returned" /\ dl_present[f]) => Cursor(f) = dl_total[f]

StartedIn(f, r) == { p[2] : p \in { q \in dl_started[f] : q[1] = r } }

StartedBefore(f, r) == { p[2] : p \in { q \in dl_started[f] : q[1] < r } }

C11_ResumeAtCursor ==
  \A f \in DlCsvs :
    (dl_pc[f] = "idle" /\ dl_pc'[f] = "row") =>
      /\ dl_row'[f] = Cursor(f)
      /\ dl_start_idx'[f] = Cursor(f)

C11_Rework ==
  \A f \in DlCsvs :
    /\ dl_pc[f] \in { "row", "update" } =>
         StartedIn(f, dl_runs) = dl_start_idx[f] .. dl_row[f]
    /\ Cardinality(StartedIn(f, dl_runs) \cap StartedBefore(f, dl_runs)) <= 1

C11_BoundedRework == []C11_Rework /\ [][C11_ResumeAtCursor]_vars

(***************************************************************************)
(* C12.  In the order of submission, no row tagged done comes before a row *)
(* tagged not done, and two rows with the same tag are submitted in the    *)
(* order they have in the seed list.                                       *)
(***************************************************************************)
SeedIndex(c) == CHOOSE i \in 1 .. Len(seed) : seed[i] = c

C12_DispatchOrder ==
  \A i, j \in 1 .. Len(futures) :
    i < j =>
      /\ ~(futures[i].is_done /\ ~futures[j].is_done)
      /\ futures[i].is_done = futures[j].is_done =>
           SeedIndex(futures[i].court) < SeedIndex(futures[j].court)

(***************************************************************************)
(* C13.  An exception raised inside one partition's worker ends only that  *)
(* worker: it never leaves the scheduler (scrape_all, main of download.py),*)
(* the step in which a worker fails changes nothing of another worker or   *)
(* of the scheduler, a future is cancelled only by the handler of          *)
(* KeyboardInterrupt, and a scheduler that was not interrupted leaves its  *)
(* collecting loop only when it has taken the result of every partition.   *)
(***************************************************************************)
Failed(c) == pc[c] \in { "error", "raised" }

C13_Contained ==
  /\ sa_pc \notin { "finally_exc", "joining_exc", "crashed" }
  /\ dm_pc \notin { "shutdown_exc", "crashed" }
  /\ \A c \in Courts : fstate[c] = "cancelled" => sigint
  /\ (sa_pc \in { "finally", "joining", "exited" } /\ ~sigint) =>
       /\ InPool = { seed[i] : i \in 1 .. Len(seed) }
       /\ collected = InPool
       /\ \A c \in InPool : Failed(c) \/ pc[c] = "returned"
  /\ dm_pc \in { "shutdown", "exited" } =>
       /\ dm_collected = DlCsvs
       /\ \A f \in DlCsvs : dl_pc[f] \in { "returned", "raised" }

C13_SiblingsUntouched ==
  /\ \A c \in Courts :
       (~Failed(c) /\ Failed(c)') =>
         /\ \A d \in Courts \ { c } :
              /\ pc'[d] = pc[d]
              /\ fstate'[d] = fstate[d]
              /\ checkpoint_data'[d] = checkpoint_data[d]
         /\ sa_pc' = sa_pc
         /\ UNCHANGED << checkpoint_file, csv >>
  /\ \A f \in DlCsvs :
       (dl_pc[f] # "raised" /\ dl_pc'[f] = "raised") =>
         /\ \A g \in DlCsvs \ { f } : dl_pc'[g] = dl_pc[g] /\ dl_row'[g] = dl_row[g]
         /\ dm_pc' = dm_pc
         /\ UNCHANGED << dl_file, html >>

C13_FailureIsolation == []C13_Contained /\ [][C13_SiblingsUntouched]_vars

C13_Witness ==
  \/ /\ sa_pc = "exited" /\ ~sigint
     /\ fstate["A"] = "raised"
     /\ fstate["B"] = "done" /\ Persisted("B").is_done
  \/ /\ dm_pc = "exited"
     /\ dl_pc["X"] = "raised"
     /\ dl_pc["Y"] = "returned" /\ Cursor("Y") = MaxRows

(***************************************************************************)
(* C14.  Once the handler of KeyboardInterrupt has run, no future goes     *)
(* from pending to running; the process exits only when every worker that  *)
(* had started has come to the end of scrape_court; and at the exit the    *)
(* checkpoint file holds, for every court that ran, the last month its     *)
(* worker completed.                                                       *)
(***************************************************************************)
Handled == sigint /\ sa_pc \in { "finally", "joining", "exited" }

C14_NoLateStart ==
  Handled =>
    \A c \in Courts :
      /\ fstate'[c] = "running" => fstate[c] = "running"
      /\ pc[c] = "idle" /\ fstate[c] # "running" => pc'[c] = "idle"

C14_WorkersRunOn ==
  (Handled /\ sa_pc = "exited") =>
    \A c \in Courts :
      /\ fstate[c] \in { "none", "cancelled", "done", "raised" }
      /\ fstate[c] \in { "done", "raised" } => pc[c] \in { "returned", "error", "raised" }
      /\ fstate[c] \in { "none", "cancelled" } => pc[c] = "idle"

C14_CheckpointCurrent ==
  (Handled /\ sa_pc = "exited") =>
    \A c \in Courts :
      (fstate[c] = "done" /\ nwrites[c] > 0) =>
        /\ HasRecord(c)
        /\ Persisted(c) = checkpoint_data[c][c]

C14_CooperativeCancellation ==
  /\ [](C14_WorkersRunOn /\ C14_CheckpointCurrent)
  /\ [][C14_NoLateStart]_vars

C14_RunOn == []C14_WorkersRunOn /\ [][C14_NoLateStart]_vars

(***************************************************************************)
(* C15.  At most one thread is in the body of a checkpoint call; no read   *)
(* of the checkpoint file sees it truncated or partly written by a save    *)
(* in progress; the thread that holds the lock is in the body of a         *)
(* checkpoint call, never in a network wait.                               *)
(***************************************************************************)
InBody(t) == lk_pc[t].stage \in { "read", "truncate", "dump", "release" }

C15_LockDiscipline ==
  /\ Cardinality({ t \in Threads : InBody(t) }) <= 1
  /\ \A t \in Threads : lk_seen[t].kind \in { "none", "absent", "object" }
  /\ \A t \in Threads :
       /\ checkpoint_lock = t => InBody(t)
       /\ InBody(t) => checkpoint_lock = t
       /\ lk_pc[t].stage = "net" => checkpoint_lock # t

C15_Witness ==
  \E t, u \in Threads :
    /\ t # u
    /\ lk_pc[t].stage = "dump" /\ LkFile.kind = "garbage"
    /\ lk_pc[u].stage = "acquire" /\ lk_pc[u].op \in { "load", "get" }
    /\ lk_seen[u].kind = "object"

(***************************************************************************)
(* C16.  A call of scrape_court that loads a record with is_done = true    *)
(* returns in its first step: it does not reach line 210, where the        *)
(* browser session is opened, and it writes neither the checkpoint file    *)
(* nor an output file.  A call of process_csv that reads a cursor at or    *)
(* beyond the row count of its CSV returns in its first step: it does not  *)
(* reach line 221, begins no row, and writes nothing.  A worker that has   *)
(* returned takes no further step.                                         *)
(***************************************************************************)
LoadsDone(c) ==
  /\ pc[c] = "idle" /\ pc'[c] # "idle"
  /\ c \in DOMAIN checkpoint_data'[c]
  /\ checkpoint_data'[c][c].is_done

ReadsFinalCursor(f) ==
  /\ dl_pc[f] = "idle" /\ dl_pc'[f] # "idle"
  /\ dl_present[f]
  /\ Cursor(f) >= dl_total[f]

C16_NoOpStep ==
  /\ \A c \in Courts :
       /\ LoadsDone(c) =>
            /\ pc'[c] = "returned"
            /\ UNCHANGED << checkpoint_file, csv, appended, nwrites >>
       /\ pc[c] = "returned" =>
            /\ pc'[c] = "returned"
            /\ checkpoint_data'[c] = checkpoint_data[c]
  /\ \A f \in DlCsvs :
       /\ ReadsFinalCursor(f) =>
            /\ dl_pc'[f] = "returned"
            /\ UNCHANGED << dl_file, html, dl_started >>
       /\ dl_pc[f] = "returned" =>
            /\ dl_pc'[f] = "returned"
            /\ dl_started'[f] = dl_started[f]

C16_FinishedAreNoOps == [][C16_NoOpStep]_vars

C16_Witness ==
  \/ \E c \in Courts :
       /\ pc[c] = "returned" /\ fstate[c] = "done"
       /\ Persisted(c).is_done
       /\ nwrites[c] = 0
       /\ ~csv[csv_file(c)].exists
  \/ \E f \in DlCsvs :
       /\ dl_pc[f] = "returned" /\ dm_pc = "exited"
       /\ dl_present[f] /\ dl_total[f] = MaxRows /\ Cursor(f) = MaxRows
       /\ dl_started[f] = {}

(***************************************************************************)
(* C17.  In a run that resumes with (last_year, last_month): a year before *)
(* last_year is passed over without a page being opened, and in the year   *)
(* last_year the months the run goes on to process are exactly the month   *)
(* links of the year page that come after last_month in the calendar, in   *)
(* page order - none that was completed, and every one that was not.       *)
(***************************************************************************)
MonthsAfter(links, m) ==
  SelectSeq(links, LAMBDA t : MonthIndex(t) > MonthIndex(m))

PassesYear(c) ==
  /\ pc[c] = "year" /\ year[c] <= end_year
  /\ pc'[c] \in { "year", "page" }

C17_ResumeStep ==
  \A c \in Courts :
    PassesYear(c) =>
      /\ (last_year[c] # NoYear /\ year[c] < last_year[c]) =>
           /\ pc'[c] = "year" /\ year'[c] = year[c] + 1
           /\ UNCHANGED << csv, checkpoint_file, appended >>
      /\ (last_year[c] = year[c] /\ last_month[c] \in MonthNameSet) =>
           LET after == MonthsAfter(site.yearPage[year[c]], last_month[c])
           IN  IF after = << >>
               THEN pc'[c] = "year" /\ year'[c] = year[c] + 1
               ELSE pc'[c] = "page" /\ todo'[c] = after

C17_ResumePoint == [][C17_ResumeStep]_vars

(***************************************************************************)
(* C18.  When a page of a month raises inside process_month_page, the loop *)
(* stops and the output file then holds, after what it held, the batch     *)
(* that was in memory and the records this pass had added to it: nothing   *)
(* that was added to the batch is dropped.                                 *)
(***************************************************************************)
PageRaises(c) == pc[c] = "page" /\ pc'[c] # "idle" /\ faults' = faults + 1

Added(c) == SubSeq(appended'[c], Len(appended[c]) + 1, Len(appended'[c]))

C18_FlushStep ==
  \A c \in Courts :
    PageRaises(c) =>
      /\ pc'[c] = "ckpt"
      /\ month_links'[c] = << >>
      /\ SubSeq(appended'[c], 1, Len(appended[c])) = appended[c]
      /\ csv'[csv_file(c)].rows
           = csv[csv_file(c)].rows \o month_links[c] \o Added(c)
      /\ csv'[csv_file(c)].rows = appended'[c]

C18_PartialFlushOnFailure == [][C18_FlushStep]_vars

C18_Witness ==
  \E c \in Courts :
    LET rows == csv[csv_file(c)].rows
    IN  /\ pc[c] = "ckpt" /\ faults = 1 /\ page[c] = 2
        /\ Len(site.chain) = 2 /\ site.chain[1] = 60 /\ site.chain[2] > 0
        /\ rows # << >>
        /\ rows[Len(rows)] = [ court |-> c, year |-> year[c], month |-> Head(todo[c]),
                               page |-> 1, n |-> 60 ]

(***************************************************************************)
(* C19.  A failure of save_links_batch does not end the traversal of the   *)
(* partition: the worker is then at the checkpoint of the month, at a next *)
(* page, at a next year, or has walked all the years.                      *)
(***************************************************************************)
C19_FlushBestEffort ==
  \A c \in Courts :
    err[c] = "flush" => pc[c] \in { "page", "ckpt", "year", "returned" }

(***************************************************************************)
(* C20.  Scraper2020.scrape_all calls the year-processing operation once   *)
(* for every court of the seed list, in seed order, with the year 2020 and *)
(* last_month = None, and comes to the end of the list: no exception is    *)
(* raised on the way.                                                      *)
(***************************************************************************)
C20_Test2020Runs ==
  /\ ts_pc \notin { "except", "main_except", "raised" }
  /\ Len(ts_calls) = ts_idx
  /\ \A i \in 1 .. Len(ts_calls) :
       ts_calls[i] = [ court |-> seed[i], year |-> 2020, last_month |-> None ]
  /\ ts_pc = "exited" => ts_idx = Len(seed)

(***************************************************************************)
(* C21.  After every call of process_month_page, a call whose loop stopped *)
(* on an exception included, scrape_court writes the month to the          *)
(* checkpoint; and a run never begins a month that an earlier run had      *)
(* written to the checkpoint.                                              *)
(***************************************************************************)
RecordsMonth(c) ==
  (pc[c] = "ckpt" /\ pc'[c] \notin { "ckpt", "idle" }) =>
    /\ HasRecord(c)'
    /\ Persisted(c)'.last_year = year[c]
    /\ Persisted(c)'.last_month = Head(todo[c])

BeginsMonth(c) == pc[c] \in { "year", "ckpt" } /\ pc'[c] = "page"

NotAgain(c) ==
  BeginsMonth(c) =>
    \A r \in 0 .. runs - 1 : << c, year'[c], Head(todo'[c]), r >> \notin recorded

\* The step is a step of court c's worker in which a page of the month raises.
MonthFails(c) == PageRaises(c) /\ \A o \in Courts \ {c} : pc'[o] = pc[o]

C21_RecordStep ==
  \A c \in Courts :
    /\ MonthFails(c) => pc'[c] = "ckpt"
    /\ RecordsMonth(c)

C21_MonthRecordedOnce ==
  [][ C21_RecordStep /\ (DistinctCalendarOrdered => \A c \in Courts : NotAgain(c)) ]_vars

(***************************************************************************)
(* C22.  A court's record in the checkpoint file has is_done = true only   *)
(* when the court's loop over all the years has run to its end; a worker   *)
(* that ended on a critical error has written no record with is_done =     *)
(* true, the file does not mark its court done, and scrape_all's is_done   *)
(* test of the court is false: the court is dispatched again.              *)
(***************************************************************************)
MarkedDone(c) == HasRecord(c) /\ Persisted(c).is_done

CriticalError(c) == pc[c] = "error"

C22_DoneOnlyByFullPass ==
  \A c \in Courts :
    /\ MarkedDone(c) => c \in passed
    /\ \A o \in Courts :
         (c \in DOMAIN checkpoint_data[o] /\ checkpoint_data[o][c].is_done)
           => c \in passed
    /\ CriticalError(c) =>
         /\ ~ checkpoint_data[c][c].is_done
         /\ ~ MarkedDone(c)
         /\ ~ is_done_for_row(c, load_checkpoint(checkpoint_file).value)

C22_Witness ==
  \E c, o \in Courts :
    /\ CriticalError(c)
    /\ HasRecord(c)
    /\ Persisted(c).last_year = start_year
    /\ MarkedDone(o)

(***************************************************************************)
(* C23.  In download mode, under every interleaving of the workers' calls  *)
(* of update_checkpoint_value on a well-formed checkpoint file, whenever   *)
(* no call is in progress the file is well-formed and holds for every CSV  *)
(* the last value its worker wrote, and for a CSV whose worker has not     *)
(* written, the entry (or no entry) it had at the start: a call changes    *)
(* its own CSV's entry only.                                               *)
(***************************************************************************)
C23_NoLostCursor ==
  /\ checkpoint_lock = NoThread => dl_file.kind \in { "absent", "object" }
  /\ dl_file.kind \in { "absent", "object" } =>
       \A f \in DlCsvs : Entry(dl_file.data, f) = lk_wrote[f]
  /\ \A f \in DlCsvs :
       lk_pc[f] = [ op |-> "update", stage |-> "release" ] =>
         /\ Entry(dl_file.data, f) = lk_calls[f] + 1
         /\ \A g \in DlCsvs \ { f } :
              Entry(dl_file.data, g) = Entry(lk_seen[f].data, g)

\* Both workers have written and a third write has just been made while the
\* other worker waits for the lock with an update of its own.
C23_Witness ==
  \E f, g \in DlCsvs :
    /\ f # g
    /\ lk_pc[f] = [ op |-> "update", stage |-> "release" ]
    /\ lk_calls[f] > 0
    /\ lk_pc[g] = [ op |-> "update", stage |-> "acquire" ]
    /\ lk_calls[g] > 0
    /\ lk_wrote[g] = lk_calls[g]
    /\ dl_file.data = Put(Put(EmptyMap, f, lk_calls[f] + 1), g, lk_calls[g])

(***************************************************************************)
(* C24.  process_month_page loads the pages in the order of the chain got  *)
(* by following each page's first "next" link from the month URL, each     *)
(* page of the chain once; it stops at the first page without a "next"     *)
(* link or at the first page whose processing raises, and not before; and  *)
(* when the chain is finite the call returns.                              *)
(***************************************************************************)
\* The first n pages of the chain of first "next" links that starts at p.
RECURSIVE Chain(_, _, _)
Chain(listing, p, n) ==
  IF p = NoHref \/ n = 0 THEN << >>
  ELSE << p >> \o Chain(listing, IF listing[p] = << >> THEN NoHref ELSE listing[p][1],
                        n - 1)

\* The chain ends: it has fewer pages than could be followed.
ChainFinite == Len(Chain(pm_site, 1, MaxLoads)) < MaxLoads

LoadedInChainOrder ==
  LET chain == Chain(pm_site, 1, MaxLoads)
  IN  /\ Len(pm_loaded) <= Len(chain)
      /\ \A i \in 1 .. Len(pm_loaded) : i <= Len(chain) => pm_loaded[i] = chain[i]

LoadedOnce ==
  ChainFinite =>
    \A i, j \in 1 .. Len(pm_loaded) : i # j => pm_loaded[i] # pm_loaded[j]

StopsAtEndOrError ==
  /\ pm_raised => pm_pc = "returned"
  /\ pm_pc = "returned" =>
       \/ pm_raised
       \/ pm_loaded = Chain(pm_site, 1, MaxLoads) /\ ChainFinite

C24_Pagination ==
  /\ [](LoadedInChainOrder /\ LoadedOnce /\ StopsAtEndOrError)
  /\ (ChainFinite => <>(pm_pc = "returned"))

\* The call has returned after the last page of a chain of several pages,
\* the first of which has a second "next" anchor that leads elsewhere.
C24_Witness ==
  /\ pm_pc = "returned"
  /\ ~ pm_raised
  /\ Len(pm_loaded) > 1
  /\ Len(pm_site[pm_loaded[1]]) > 1
  /\ pm_site[pm_loaded[1]][1] # pm_site[pm_loaded[1]][2]

=============================================================================
